---- MODULE Spec2Model ----
(***************************************************************************)
(* api-gateway-backend: the fetch-with-retry client                        *)
(* (internal/client/client.go), the sync pipeline (internal/jobs/jobs.go), *)
(* the items table (internal/database/database.go, sql/init.sql) and the   *)
(* cache invalidation (internal/redis/redis.go).                           *)
(*                                                                         *)
(* One sync run is one execution of Manager.syncData.  Its steps are the   *)
(* blocking points of the code: one HTTP attempt, one backoff select, one  *)
(* UpsertItem, the KEYS and the DEL of InvalidatePattern.                  *)
(*                                                                         *)
(* Library behaviour the code relies on is modelled as the library         *)
(* documents it: net/http fails a request whose context is done;           *)
(* encoding/json decodes into the slice it is given, element by element,   *)
(* setting only the members present in the JSON and reporting a type       *)
(* error after decoding the rest; go-redis fails a command whose context   *)
(* is done.                                                                *)
(***************************************************************************)
EXTENDS Integers, Sequences, FiniteSets, TLC

\* ------------------------------------------------------------------ bounds
\* How many sync runs are started.
MaxRuns == 2

\* How far the store's clock advances.
MaxTime == 1

\* How far the wall clock is followed, in minutes.
MaxWall == 16

\* How many GET /api/v1/items requests are answered.
MaxReads == 2

\* ------------------------------------------------------- program constants
\* one retry more than client.go:49 asks for
maxRetriesOneMore == 3 + 1

\* client.go:49  c.retryRequest(ctx, url, &posts, 3)
maxRetries == 3

\* a cron entry for every 10th minute
cronEveryTenMinutes == 2 * 5

\* jobs.go:47  "0 */15 * * * *": second 0 of the minutes 0, 15, 30 and 45
cronEveryMinutes == 15

\* jobs.go:77  context.WithTimeout(m.ctx, 2*time.Minute), in minutes
syncTimeoutMinutes == 2

\* ------------------------------------------------------------------ errors
\* A Go error is its chain of wrapped messages, outermost first; nil is <<>>.
\* "%d" arguments of the message are kept in n and m.
nil == <<>>

Err(msg, n, m) == << [msg |-> msg, n |-> n, m |-> m] >>

\* fmt.Errorf("msg: %w", cause)
Wrap(msg, cause) == Err(msg, 0, 0) \o cause

\* errors.Is(err, target) for a one-element target
ErrorsIs(err, target) == \E i \in 1..Len(err) : <<err[i]>> = target

Canceled == Err("context canceled", 0, 0)

DeadlineExceeded == Err("context deadline exceeded", 0, 0)

\* A transport failure that is not caused by the context (refused, reset, timeout
\* of http.Client).
NetError == Err("connection failed", 0, 0)

\* ---------------------------------------------------------------- contexts
\* A context is "live", "canceled" or "deadline".
CtxDone(c) == c # "live"

\* ctx.Err()
CtxErr(c) == IF c = "canceled" THEN Canceled
             ELSE IF c = "deadline" THEN DeadlineExceeded ELSE nil

\* --------------------------------------------------- the external source
\* client.go:21-26  PostResponse, and its zero value
PostResponse(userId, id, title, body) ==
    [UserID |-> userId, ID |-> id, Title |-> title, Body |-> body]

ZeroPost == PostResponse(0, 0, "", "")

\* A member of a JSON object: present with a value of the field's type ("val"),
\* not present ("absent"), or present with a value of another JSON type ("badtype").
JVal(v) == [k |-> "val", v |-> v]

JAbsentInt == [k |-> "absent", v |-> 0]

JAbsentStr == [k |-> "absent", v |-> ""]

JBadInt == [k |-> "badtype", v |-> 0]

JObject(userId, id, title, body) ==
    [userId |-> userId, id |-> id, title |-> title, body |-> body]

JFull(userId, id, title, body) ==
    JObject(JVal(userId), JVal(id), JVal(title), JVal(body))

\* A response body: a JSON array of objects, or text that is not JSON.
JArray(elems) == [kind |-> "array", elems |-> elems]

JGarbage == [kind |-> "syntax", elems |-> <<>>]

\* The bodies the external source answers a 2xx with.
DocEmpty == JArray(<< >>)

DocOne == JArray(<< JFull(1, 1, "A", "b") >>)

DocTwo == JArray(<< JFull(1, 1, "B", "b"), JFull(2, 2, "A", "") >>)

DocDup == JArray(<< JFull(1, 1, "A", "b"), JFull(2, 1, "B", "") >>)

\* a list that repeats the id of its first record after another record
DocResync ==
    JArray(<< JFull(1, 1, "A", "b"), JFull(2, 2, "A", ""), JFull(1, 1, "B", "b") >>)

\* body is optional, userId left out
DocSparse == JArray(<< JObject(JAbsentInt, JVal(2), JVal("B"), JAbsentStr) >>)

\* "id" is a JSON string: an UnmarshalTypeError
DocBadType == JArray(<< JObject(JVal(1), JBadInt, JVal("A"), JVal("b")) >>)

Bodies == {DocEmpty, DocOne, DocTwo, DocDup, DocResync, DocSparse, DocBadType, JGarbage}

\* ------------------------------------------------------- json.Unmarshal
\* The destination slice: buf is the backing array as far as it was ever written,
\* len the slice length.  `var posts []PostResponse` is the nil slice.
NilSlice == [buf |-> << >>, len |-> 0]

SliceValue(d) == SubSeq(d.buf, 1, d.len)

\* encoding/json decodes a member into the field it finds: a member that is absent
\* or of the wrong type leaves the field as it is.
JDecodeMember(old, mem) == IF mem.k = "val" THEN mem.v ELSE old

JDecodeObject(old, obj) ==
    PostResponse(JDecodeMember(old.UserID, obj.userId),
                 JDecodeMember(old.ID, obj.id),
                 JDecodeMember(old.Title, obj.title),
                 JDecodeMember(old.Body, obj.body))

JHasTypeError(obj) ==
    \/ obj.userId.k = "badtype"
    \/ obj.id.k = "badtype"
    \/ obj.title.k = "badtype"
    \/ obj.body.k = "badtype"

\* The element of the backing array that element i of the JSON array is decoded
\* into: the element already there, or a zero element of a grown array.
JElemBase(d, i) == IF i <= Len(d.buf) THEN d.buf[i] ELSE ZeroPost

JMax(a, b) == IF a >= b THEN a ELSE b

\* client.go:96  json.Unmarshal(body, dest), dest = &posts.  Text that is not JSON
\* is rejected before anything is stored.  A JSON array is decoded element by
\* element into the slice; the length ends as the array's length; an empty array
\* stores a fresh empty slice; a type error is reported at the end, after the rest
\* has been decoded.
Unmarshal(doc, d) ==
    IF doc.kind = "syntax"
    THEN [ok |-> FALSE, dest |-> d]
    ELSE LET n == Len(doc.elems)
             cap == JMax(n, Len(d.buf))
         IN [ok   |-> \A i \in 1..n : ~JHasTypeError(doc.elems[i]),
             dest |-> IF n = 0 THEN [buf |-> << >>, len |-> 0]
                      ELSE [buf |-> [i \in 1..cap |->
                                       IF i <= n
                                       THEN JDecodeObject(JElemBase(d, i), doc.elems[i])
                                       ELSE d.buf[i]],
                            len |-> n]]

\* What the body says when decoded into fresh memory.
RecordsOf(doc) == SliceValue(Unmarshal(doc, NilSlice).dest)

\* ------------------------------------------------------------ HTTP attempts
StatusCodes == {101, 200, 304, 400, 404, 429, 499, 500, 503}

IsSuccessStatus(code) == code >= 200 /\ code < 300

\* What one c.client.Do(req) and the reading of its body can give.  Do fails at once
\* with the context's error when the request's context is done.
TransportFailure(cause) ==
    [kind |-> "transport", cause |-> cause, code |-> 0, readable |-> FALSE, doc |-> JGarbage]

StatusResponse(code, readable, doc) ==
    [kind |-> "status", cause |-> nil, code |-> code, readable |-> readable, doc |-> doc]

\* Do without the check of the request's context
ResponsesIgnoringContext(c) ==
    {TransportFailure(NetError)}
    \cup {StatusResponse(code, FALSE, JGarbage) : code \in StatusCodes}
    \cup {StatusResponse(code, TRUE, doc) :
            code \in {x \in StatusCodes : IsSuccessStatus(x)}, doc \in Bodies}

Responses(c) ==
    IF CtxDone(c)
    THEN {TransportFailure(CtxErr(c))}
    ELSE {TransportFailure(NetError)}
         \cup {StatusResponse(code, FALSE, JGarbage) : code \in StatusCodes}
         \cup {StatusResponse(code, TRUE, doc) :
                 code \in {x \in StatusCodes : IsSuccessStatus(x)}, doc \in Bodies}

\* a backoff that grows by a second a time
BackoffLinear(attempt) == attempt

\* client.go:64  backoff := time.Duration(1<<uint(attempt-1)) * time.Second, in seconds
Backoff(attempt) == 2 ^ (attempt - 1)

\* client.go:104-117 with the default arm returning its error
ClassifyStatusUnexpectedTerminal(code) ==
    IF code >= 500 THEN [act |-> "continue", err |-> Err("server error", code, 0)]
    ELSE IF code = 429 THEN [act |-> "continue", err |-> Err("rate limited", code, 0)]
    ELSE IF code >= 400 THEN [act |-> "return", err |-> Err("client error", code, 0)]
    ELSE [act |-> "return", err |-> Err("unexpected status code", code, 0)]

\* client.go:104-117 with the 4xx arm retrying
ClassifyStatusRetryClientError(code) ==
    IF code >= 500 THEN [act |-> "continue", err |-> Err("server error", code, 0)]
    ELSE IF code = 429 THEN [act |-> "continue", err |-> Err("rate limited", code, 0)]
    ELSE IF code >= 400 THEN [act |-> "continue", err |-> Err("client error", code, 0)]
    ELSE [act |-> "continue", err |-> Err("unexpected status code", code, 0)]

\* client.go:104-117 with the 4xx arm tested before the 429 arm
ClassifyStatusClientErrorFirst(code) ==
    IF code >= 500 THEN [act |-> "continue", err |-> Err("server error", code, 0)]
    ELSE IF code >= 400 THEN [act |-> "return", err |-> Err("client error", code, 0)]
    ELSE IF code = 429 THEN [act |-> "continue", err |-> Err("rate limited", code, 0)]
    ELSE [act |-> "continue", err |-> Err("unexpected status code", code, 0)]

\* client.go:104-117  the switch over a status that is not 2xx: "return" ends
\* retryRequest with err, "continue" sets lastErr to err.
ClassifyStatus(code) ==
    IF code >= 500 THEN [act |-> "continue", err |-> Err("server error", code, 0)]
    ELSE IF code = 429 THEN [act |-> "continue", err |-> Err("rate limited", code, 0)]
    ELSE IF code >= 400 THEN [act |-> "return", err |-> Err("client error", code, 0)]
    ELSE [act |-> "continue", err |-> Err("unexpected status code", code, 0)]

\* client.go:80-117  what one iteration of the retry loop makes of a response, with
\* the slice d to decode into.
ClassifyResponse(resp, d) ==
    IF resp.kind = "transport"
    THEN [act |-> "continue", err |-> Wrap("request failed", resp.cause), dest |-> d]
    ELSE IF resp.code >= 200 /\ resp.code < 300
    THEN IF ~resp.readable
         THEN [act |-> "continue",
               err |-> Wrap("failed to read response body", Err("unexpected EOF", 0, 0)),
               dest |-> d]
         ELSE LET u == Unmarshal(resp.doc, d)
              IN IF ~u.ok
                 THEN [act |-> "continue",
                       err |-> Wrap("failed to unmarshal response", Err("json error", 0, 0)),
                       dest |-> u.dest]
                 ELSE [act |-> "return", err |-> nil, dest |-> u.dest]
    ELSE LET c == ClassifyStatus(resp.code)
         IN [act |-> c.act, err |-> c.err, dest |-> d]

\* client.go:120
MaxRetriesExceeded(lastE) == Wrap("max retries exceeded, last error", lastE)

\* client.go:51 and jobs.go:86 each wrap a failed fetch once
FetchFailed(err) == Wrap("failed to fetch posts", Wrap("failed to fetch posts", err))

\* ------------------------------------------------------------------- store
\* jobs.go:95  strconv.Itoa(post.ID)
Itoa(i) == CASE i = 0 -> "0" [] i = 1 -> "1" [] i = 2 -> "2" [] OTHER -> "?"

\* a mapping that takes the external id from the post's userId
ItemOfByUser(post) ==
    [ExternalID |-> Itoa(post.UserID), Title |-> post.Title, Body |-> post.Body,
     UserID |-> post.UserID]

\* jobs.go:94-99  the Item a fetched post is mapped to
ItemOf(post) ==
    [ExternalID |-> Itoa(post.ID), Title |-> post.Title, Body |-> post.Body,
     UserID |-> post.UserID]

\* sql/init.sql:6-17  a row of the items table
Row(id, item, createdAt, updatedAt) ==
    [id |-> id, external_id |-> item.ExternalID, title |-> item.Title,
     body |-> item.Body, user_id |-> item.UserID,
     created_at |-> createdAt, updated_at |-> updatedAt]

\* AUTO_INCREMENT: an id no row has
NextRowId(rows) == Cardinality(rows) + 1

\* REPLACE INTO: the row with the item's external_id is deleted and a row inserted
UpsertItemReplaces(rows, item, t) ==
    LET others == {row \in rows : row.external_id # item.ExternalID}
    IN others \cup {Row(NextRowId(rows), item, t, t)}

\* a plain INSERT into a table without the UNIQUE key
UpsertItemInsertsOnly(rows, item, t) ==
    rows \cup {Row(NextRowId(rows), item, t, t)}

\* a sync that empties the table before it stores
UpsertItemTruncates(rows, item, t) ==
    {Row(1, item, t, t)}

\* INSERT IGNORE: a row with the item's external_id is left as it is
UpsertItemKeepsFirst(rows, item, t) ==
    IF \E row \in rows : row.external_id = item.ExternalID
    THEN rows
    ELSE rows \cup {Row(NextRowId(rows), item, t, t)}

\* database.go:93-96, 101-104, 109  the errors GetAllItems returns as it got them:
\* that of db.Query or rows.Err(), and that of rows.Scan
GetAllItemsErrors == {Err("invalid connection", 0, 0), Err("Scan error on column", 0, 0)}

\* database.go:76-88  INSERT ... ON DUPLICATE KEY UPDATE at time t: external_id is
\* UNIQUE, so a row with the item's external_id is updated in place (id and
\* created_at kept), and a new row is inserted otherwise.
UpsertItem(rows, item, t) ==
    IF \E row \in rows : row.external_id = item.ExternalID
    THEN {IF row.external_id = item.ExternalID
          THEN Row(row.id, item, row.created_at, t)
          ELSE row : row \in rows}
    ELSE rows \cup {Row(NextRowId(rows), item, t, t)}

\* database.go:42-50, 98-103  the Item a row is scanned into
ScanItem(row) ==
    [ID |-> row.id, ExternalID |-> row.external_id, Title |-> row.title,
     Body |-> row.body, UserID |-> row.user_id,
     CreatedAt |-> row.created_at, UpdatedAt |-> row.updated_at]

\* database.go:97  `var items []Item`, a nil slice
NilItems == [isNil |-> TRUE, elems |-> << >>]

\* a slice that is not nil
ItemSlice(elems) == [isNil |-> FALSE, elems |-> elems]

\* The orders in which a SELECT can return the rows, each row once.
RowOrders(rows) ==
    {seq \in [1..Cardinality(rows) -> rows] :
       \A i, j \in 1..Cardinality(rows) : i # j => seq[i] # seq[j]}

\* ORDER BY updated_at DESC
GetAllItemsByUpdated(rows) ==
    IF rows = {} THEN {NilItems}
    ELSE {ItemSlice([i \in 1..Cardinality(rows) |-> ScanItem(seq[i])]) :
            seq \in {o \in RowOrders(rows) :
                       \A i, j \in 1..Cardinality(rows) :
                          i < j => o[i].updated_at >= o[j].updated_at}}

\* database.go:90-110  SELECT ... FROM items ORDER BY created_at DESC, scanned row
\* by row and appended to a nil slice: what GetAllItems can return when the query
\* succeeds.  The order of rows with equal created_at is the server's choice.
GetAllItems(rows) ==
    IF rows = {} THEN {NilItems}
    ELSE {ItemSlice([i \in 1..Cardinality(rows) |-> ScanItem(seq[i])]) :
            seq \in {o \in RowOrders(rows) :
                       \A i, j \in 1..Cardinality(rows) :
                          i < j => o[i].created_at >= o[j].created_at}}

\* ------------------------------------------------------------------- cache
\* A key is its ":"-separated parts.  part_001:18  itemsCacheKey = "items:all"
itemsCacheKey == <<"items", "all">>

\* jobs.go:111  "items:*"
itemsPattern == <<"items", "*">>

\* A key of the same Redis database that this program never writes.
foreignKey == <<"sessions", "1">>

\* A key of a listing derived from the items, which this program does not write
\* either.
derivedKey == <<"items", "1">>

CacheKeys == {itemsCacheKey, derivedKey, foreignKey}

NoDoc == [kind |-> "none", elems |-> << >>]

\* A key that is not set.
NoEntry == [present |-> FALSE, val |-> NoDoc, exp |-> 0]

\* A key set to the bytes val that expires at minute exp, or never with exp = 0.
Entry(val, exp) == [present |-> TRUE, val |-> val, exp |-> exp]

\* Redis glob matching, a "*" part matching any part
GlobMatch(pattern, key) ==
    /\ Len(pattern) = Len(key)
    /\ \A i \in 1..Len(pattern) : pattern[i] = "*" \/ pattern[i] = key[i]

\* redis.go:59  c.Keys(ctx, pattern)
Keys(c, pattern) == {k \in CacheKeys : c[k].present /\ GlobMatch(pattern, k)}

\* FLUSHDB
DelFlushes(c, keys) == [k \in CacheKeys |-> NoEntry]

\* PERSIST: the keys lose their expiry instead of being removed
DelPersists(c, keys) ==
    [k \in CacheKeys |-> IF k \in keys THEN [present |-> TRUE, val |-> c[k].val, exp |-> 0]
                         ELSE c[k]]

\* redis.go:65  c.Del(ctx, keys...)
Del(c, keys) == [k \in CacheKeys |-> IF k \in keys THEN NoEntry ELSE c[k]]

\* a TTL of 10 minutes
itemsCacheTTLTenMinutes == 2 * 5

\* part_001:19  itemsCacheTTL = 5 * time.Minute
itemsCacheTTLMinutes == 5

\* time.Time's MarshalJSON: the time as RFC 3339 text
TimeJSON(t) == <<"RFC3339", t>>

\* time.Time's UnmarshalJSON
ParseTime(text) == text[2]

\* database.go:42-50  json.Marshal of an Item, by its json tags
ItemJSON(item) ==
    [id |-> item.ID, external_id |-> item.ExternalID, title |-> item.Title,
     body |-> item.Body, user_id |-> item.UserID,
     created_at |-> TimeJSON(item.CreatedAt), updated_at |-> TimeJSON(item.UpdatedAt)]

\* a json.Unmarshal into an Item whose Title has another json tag
ItemOfJSONWithoutTitle(obj) ==
    [ID |-> obj.id, ExternalID |-> obj.external_id, Title |-> "",
     Body |-> obj.body, UserID |-> obj.user_id,
     CreatedAt |-> ParseTime(obj.created_at), UpdatedAt |-> ParseTime(obj.updated_at)]

\* json.Unmarshal of an object into an Item
ItemOfJSON(obj) ==
    [ID |-> obj.id, ExternalID |-> obj.external_id, Title |-> obj.title,
     Body |-> obj.body, UserID |-> obj.user_id,
     CreatedAt |-> ParseTime(obj.created_at), UpdatedAt |-> ParseTime(obj.updated_at)]

\* the JSON text null
JNull == [kind |-> "null", elems |-> << >>]

\* redis.go:40  json.Marshal of a []Item: null for a nil slice, an array otherwise
MarshalItems(v) ==
    IF v.isNil THEN JNull
    ELSE JArray([i \in 1..Len(v.elems) |-> ItemJSON(v.elems[i])])

\* redis.go:55  json.Unmarshal(data, &items) with items holding old: text that is
\* not JSON is refused before anything is stored, null makes the slice nil, an
\* array makes it a slice of the decoded elements.
UnmarshalItems(doc, old) ==
    CASE doc.kind = "null" -> [err |-> nil, value |-> NilItems]
      [] doc.kind = "array" ->
           [err |-> nil,
            value |-> ItemSlice([i \in 1..Len(doc.elems) |-> ItemOfJSON(doc.elems[i])])]
      [] OTHER -> [err |-> Err("invalid character", 0, 0), value |-> old]

\* go-redis: redis.Nil, the error of a GET of a key that is not set
RedisNil == Err("redis: nil", 0, 0)

\* redis.go:49-56  GetJSON(ctx, key, &items) with items holding old, against a cache
\* that answers or not
GetJSON(c, key, reachable, old) ==
    IF ~reachable THEN [err |-> NetError, value |-> old]
    ELSE IF ~c[key].present THEN [err |-> RedisNil, value |-> old]
    ELSE UnmarshalItems(c[key].val, old)

\* redis.go:39-46  SetJSON(ctx, key, v, ttl) at minute t of the cache's clock, when
\* the SET is executed
SetJSON(c, key, v, ttl, t) == [c EXCEPT ![key] = Entry(MarshalItems(v), t + ttl)]

\* a cache that keeps a key past its expiry
ExpireNever(c, t) == c

\* Redis removes a key when its expiry is reached: the cache at minute t
Expire(c, t) ==
    [k \in CacheKeys |->
       IF c[k].present /\ c[k].exp # 0 /\ c[k].exp <= t THEN NoEntry ELSE c[k]]

\* ------------------------------------------------------------------- state
\* The goroutines that execute syncData: the run Start launches, the run of the
\* cron entry, and the run of POST /api/v1/sync.
RunIds == {"startup", "cron", "manual"}

\* main.go:43 builds the Manager that is started and stopped; part_001:40 builds
\* the Manager the /sync handler calls.
Managers == {"main", "router"}

ManagerOf(r) == IF r = "manual" THEN "router" ELSE "main"

VARIABLES
    baseURLValid,  \* config: http.NewRequestWithContext accepts baseURL + "/posts"
    mctx,          \* Manager.ctx of each Manager
    now,           \* the store's clock, NOW()
    store,         \* the rows of the items table
    cache,         \* the Redis keys
    runsStarted,   \* how many sync runs were started
    pc,            \* where each run is
    ctx,           \* each run's context (jobs.go:77)
    attempt,       \* retryRequest's loop variable
    lastErr,       \* retryRequest's lastErr
    dest,          \* FetchPosts' posts, the slice retryRequest decodes into
    timer,         \* the time.After channel of the backoff select
    posts,         \* syncData's posts
    idx,           \* the position of the range loop over posts, from 1
    successCount,
    errorCount,
    keysFound,     \* InvalidatePattern's keys
    ret,           \* what syncData returned
    \* what happened in the run, for stating the properties
    attempts,      \* how many times c.client.Do was called
    lastResp,      \* what the last c.client.Do gave
    lastFailure,   \* the error the last attempt ended its iteration with
    waits,         \* the backoff durations waited for, in seconds
    okDoc,         \* the body of the attempt that succeeded
    upserts,       \* the UpsertItem calls: [item, ok]
    invalCalls,    \* how many times InvalidatePattern was called
    invalErr,      \* whether InvalidatePattern returned an error
    lastWrite,     \* for each external_id, the item of the upsert applied last
    \* the scheduler, the /sync handler and the wall clock
    source,        \* what the external source answers with in this execution
    mainPc,        \* where main is with its Manager: "new", "started", "stopping", "stopped"
    cronRunning,   \* whether each Manager's cron scheduler runs
    reqCtx,        \* the context of the POST /sync request in progress, or "none"
    syncResponse,  \* what the /sync handler answered last
    wall,          \* the wall clock, in minutes
    due,           \* the cron entry's activation time is reached and its job not yet started
    startedAt,     \* the wall clock when each run derived its context
    startCtx,      \* the Manager's context when each run derived its own from it
    lastFetched,   \* the run whose FetchPosts returned posts most recently
    \* GET /api/v1/items and GET /health
    getPc,         \* where the getItems handler is: "idle", "query", "set"
    items,         \* getItems' items
    getErr,        \* the error GetJSON returned to getItems
    itemsResponses,\* the answers of getItems, in order
    healthResponse,\* what healthCheck answered last
    pinged         \* what the pings of the last healthCheck gave

fetchVars == <<attempt, lastErr, dest, timer, attempts, lastResp, lastFailure, waits, okDoc>>

syncVars == <<posts, idx, successCount, errorCount, keysFound, upserts, invalCalls, invalErr>>

\* What no step of a sync run changes.
hostVars == <<source, mainPc, cronRunning, reqCtx, syncResponse, wall, due>>

readVars == <<getPc, items, getErr, itemsResponses, healthResponse, pinged>>

vars == <<baseURLValid, mctx, now, store, cache, runsStarted, pc, ctx, ret,
          fetchVars, syncVars, lastWrite, hostVars, startedAt, startCtx, lastFetched,
          readVars>>


NoResponse == [kind |-> "none", cause |-> nil, code |-> 0, readable |-> FALSE, doc |-> NoDoc]

\* database.go:42-50  the external ids the bodies can lead to, and no item
ExternalIDs == {"0", "1", "2", "?"}

NoItem == [ExternalID |-> "", Title |-> "", Body |-> "", UserID |-> 0]

\* part_001:103-113  the answers of the /sync handler, and no answer yet
SyncFailedResponse(err) == [status |-> 500, error |-> "sync failed", message |-> err]

SyncCompletedResponse ==
    [status |-> 200, error |-> "", message |-> Err("sync completed successfully", 0, 0)]

NoSyncResponse == [status |-> 0, error |-> "", message |-> nil]

\* part_001:125-131  the answer of getItems from the cache
ItemsHitResponse(v) ==
    [status |-> 200, xcache |-> "HIT", data |-> v, count |-> Len(v.elems),
     cached |-> TRUE, error |-> "", message |-> nil]

\* part_001:152-158  the answer of getItems from the store
ItemsMissResponse(v) ==
    [status |-> 200, xcache |-> "MISS", data |-> v, count |-> Len(v.elems),
     cached |-> FALSE, error |-> "", message |-> nil]

\* part_001:138-143  the answer of getItems when the store cannot be read, with
\* err.Error() as the message
ItemsFailedResponse(err) ==
    [status |-> 500, xcache |-> "", data |-> NilItems, count |-> 0,
     cached |-> FALSE, error |-> "failed to retrieve items", message |-> err]

\* part_001:88-91
HealthyResponse == [status |-> 200, state |-> "healthy", error |-> ""]

\* part_001:71-74, 81-84
UnhealthyResponse(error) == [status |-> 503, state |-> "unhealthy", error |-> error]

NoHealthResponse == [status |-> 0, state |-> "", error |-> ""]

\* main.go:21-43, part_001:31-46, jobs.go:30-42  main has opened the store and the
\* cache and built its Manager, NewRouter has built the handler's: both contexts are
\* live, no cron scheduler runs, no run was started, no request is in progress.
Constructed ==
    /\ mctx = [m \in Managers |-> "live"]
    /\ mainPc = "new"
    /\ cronRunning = [m \in Managers |-> FALSE]
    /\ reqCtx = "none"
    /\ syncResponse = NoSyncResponse
    /\ due = FALSE
    /\ startedAt = [r \in RunIds |-> 0]
    /\ startCtx = [r \in RunIds |-> "live"]
    /\ lastWrite = [e \in ExternalIDs |-> NoItem]
    /\ now = 0
    /\ store = {}
    /\ \E cached \in BOOLEAN :
          cache = [k \in CacheKeys |->
                     IF k = foreignKey \/ cached THEN Entry(JGarbage, 0) ELSE NoEntry]
    /\ runsStarted = 0
    /\ pc = [r \in RunIds |-> "idle"]
    /\ ctx = [r \in RunIds |-> "live"]
    /\ attempt = [r \in RunIds |-> 0]
    /\ lastErr = [r \in RunIds |-> nil]
    /\ dest = [r \in RunIds |-> NilSlice]
    /\ timer = [r \in RunIds |-> "none"]
    /\ posts = [r \in RunIds |-> << >>]
    /\ idx = [r \in RunIds |-> 1]
    /\ successCount = [r \in RunIds |-> 0]
    /\ errorCount = [r \in RunIds |-> 0]
    /\ keysFound = [r \in RunIds |-> {}]
    /\ ret = [r \in RunIds |-> nil]
    /\ attempts = [r \in RunIds |-> 0]
    /\ lastResp = [r \in RunIds |-> NoResponse]
    /\ lastFailure = [r \in RunIds |-> nil]
    /\ waits = [r \in RunIds |-> << >>]
    /\ okDoc = [r \in RunIds |-> NoDoc]
    /\ upserts = [r \in RunIds |-> << >>]
    /\ invalCalls = [r \in RunIds |-> 0]
    /\ invalErr = [r \in RunIds |-> FALSE]
    /\ lastFetched = "none"
    /\ getPc = "idle"
    /\ items = NilItems
    /\ getErr = nil
    /\ itemsResponses = << >>
    /\ healthResponse = NoHealthResponse
    /\ pinged = [db |-> "none", redis |-> "none"]

\* The external source answers with any of the responses, the base URL is valid or
\* not, and the wall clock is not followed.
Init ==
    /\ baseURLValid \in BOOLEAN
    /\ source = Responses("live")
    /\ wall = 0
    /\ Constructed

\* ------------------------------------------------------------ the sync run
\* a syncData that derives the run's context from context.Background()
StartRunFromBackground(r) ==
    /\ pc[r] \in {"idle", "spawned", "done"}
    /\ runsStarted < MaxRuns
    /\ runsStarted' = runsStarted + 1
    /\ pc' = [pc EXCEPT ![r] = "request"]
    /\ ctx' = [ctx EXCEPT ![r] = "live"]
    /\ attempt' = [attempt EXCEPT ![r] = 0]
    /\ lastErr' = [lastErr EXCEPT ![r] = nil]
    /\ dest' = [dest EXCEPT ![r] = NilSlice]
    /\ timer' = [timer EXCEPT ![r] = "none"]
    /\ posts' = [posts EXCEPT ![r] = << >>]
    /\ idx' = [idx EXCEPT ![r] = 1]
    /\ successCount' = [successCount EXCEPT ![r] = 0]
    /\ errorCount' = [errorCount EXCEPT ![r] = 0]
    /\ keysFound' = [keysFound EXCEPT ![r] = {}]
    /\ ret' = [ret EXCEPT ![r] = nil]
    /\ attempts' = [attempts EXCEPT ![r] = 0]
    /\ lastResp' = [lastResp EXCEPT ![r] = NoResponse]
    /\ lastFailure' = [lastFailure EXCEPT ![r] = nil]
    /\ waits' = [waits EXCEPT ![r] = << >>]
    /\ okDoc' = [okDoc EXCEPT ![r] = NoDoc]
    /\ upserts' = [upserts EXCEPT ![r] = << >>]
    /\ invalCalls' = [invalCalls EXCEPT ![r] = 0]
    /\ invalErr' = [invalErr EXCEPT ![r] = FALSE]
    /\ startedAt' = [startedAt EXCEPT ![r] = wall]
    /\ startCtx' = [startCtx EXCEPT ![r] = mctx[ManagerOf(r)]]
    /\ UNCHANGED <<baseURLValid, mctx, now, store, cache, lastWrite, readVars,
                   lastFetched>>

\* jobs.go:76-84, client.go:45-61  syncData is entered by goroutine r: the run's
\* context is derived from the Manager's, FetchPosts declares posts and retryRequest
\* starts its loop.  What calls syncData says what becomes of hostVars.
StartRun(r) ==
    /\ pc[r] \in {"idle", "spawned", "done"}
    /\ runsStarted < MaxRuns
    /\ runsStarted' = runsStarted + 1
    /\ pc' = [pc EXCEPT ![r] = "request"]
    /\ ctx' = [ctx EXCEPT ![r] = mctx[ManagerOf(r)]]
    /\ attempt' = [attempt EXCEPT ![r] = 0]
    /\ lastErr' = [lastErr EXCEPT ![r] = nil]
    /\ dest' = [dest EXCEPT ![r] = NilSlice]
    /\ timer' = [timer EXCEPT ![r] = "none"]
    /\ posts' = [posts EXCEPT ![r] = << >>]
    /\ idx' = [idx EXCEPT ![r] = 1]
    /\ successCount' = [successCount EXCEPT ![r] = 0]
    /\ errorCount' = [errorCount EXCEPT ![r] = 0]
    /\ keysFound' = [keysFound EXCEPT ![r] = {}]
    /\ ret' = [ret EXCEPT ![r] = nil]
    /\ attempts' = [attempts EXCEPT ![r] = 0]
    /\ lastResp' = [lastResp EXCEPT ![r] = NoResponse]
    /\ lastFailure' = [lastFailure EXCEPT ![r] = nil]
    /\ waits' = [waits EXCEPT ![r] = << >>]
    /\ okDoc' = [okDoc EXCEPT ![r] = NoDoc]
    /\ upserts' = [upserts EXCEPT ![r] = << >>]
    /\ invalCalls' = [invalCalls EXCEPT ![r] = 0]
    /\ invalErr' = [invalErr EXCEPT ![r] = FALSE]
    /\ startedAt' = [startedAt EXCEPT ![r] = wall]
    /\ startCtx' = [startCtx EXCEPT ![r] = mctx[ManagerOf(r)]]
    /\ UNCHANGED <<baseURLValid, mctx, now, store, cache, lastWrite, readVars,
                   lastFetched>>

\* an error only when no upsert succeeded
SyncResultTotalFailureOnly(ec, n) ==
    IF ec >= n THEN Err("sync completed with errors out of items", ec, n) ELSE nil

\* jobs.go:116-128  the end of syncData with ec failed upserts over n posts
SyncResult(ec, n) ==
    IF ec > 0 THEN Err("sync completed with errors out of items", ec, n) ELSE nil

\* an invalidation that does not look at successCount
AfterUpsertsAlwaysInvalidate(r, sc, ec, n) ==
    /\ pc' = [pc EXCEPT ![r] = "invalidate"]
    /\ ret' = ret

\* jobs.go:109-128  after the range loop: invalidate when something was stored, or
\* return
AfterUpserts(r, sc, ec, n) ==
    IF sc > 0
    THEN /\ pc' = [pc EXCEPT ![r] = "invalidate"]
         /\ ret' = ret
    ELSE /\ pc' = [pc EXCEPT ![r] = "done"]
         /\ ret' = [ret EXCEPT ![r] = SyncResult(ec, n)]

\* a fetch error that is not looked at
FetchAbortsNever(err) == FALSE

\* client.go:50, jobs.go:85  `if err != nil`: a failed fetch ends the run
FetchAborts(err) == err # nil

\* client.go:50-54, jobs.go:84-93  retryRequest returns err with posts decoded as d:
\* its locals and FetchPosts' are gone, and syncData returns the error or enters
\* the range loop over the posts.
FetchReturns(r, err, d) ==
    /\ attempt' = [attempt EXCEPT ![r] = 0]
    /\ lastErr' = [lastErr EXCEPT ![r] = nil]
    /\ dest' = [dest EXCEPT ![r] = NilSlice]
    /\ timer' = [timer EXCEPT ![r] = "none"]
    /\ IF FetchAborts(err)
       THEN /\ pc' = [pc EXCEPT ![r] = "done"]
            /\ ret' = [ret EXCEPT ![r] = FetchFailed(err)]
            /\ posts' = posts
       ELSE /\ posts' = [posts EXCEPT ![r] = SliceValue(d)]
            /\ IF d.len > 0
               THEN /\ pc' = [pc EXCEPT ![r] = "upsert"]
                    /\ ret' = ret
               ELSE AfterUpserts(r, 0, 0, 0)

\* client.go:80  what c.client.Do can give in this execution: the context's error, or
\* one of the answers of the external source
Served(c) == IF CtxDone(c) THEN Responses(c) ELSE Responses(c) \cap source

\* client.go:72-118  one iteration of the retry loop from the request on: the
\* request is built and sent, the response classified, and the loop either returns,
\* or goes on to the backoff of the next iteration, or ends after maxRetries.
DoRequest(r) ==
    /\ pc[r] = "request"
    /\ IF ~baseURLValid
       THEN /\ FetchReturns(r, Wrap("failed to create request", Err("invalid URL", 0, 0)),
                            dest[r])
            /\ UNCHANGED <<attempts, lastResp, lastFailure, waits, okDoc>>
       ELSE \E resp \in Served(ctx[r]) :
              LET cls == ClassifyResponse(resp, dest[r])
              IN /\ attempts' = [attempts EXCEPT ![r] = @ + 1]
                 /\ lastResp' = [lastResp EXCEPT ![r] = resp]
                 /\ lastFailure' = [lastFailure EXCEPT ![r] = cls.err]
                 /\ IF cls.act = "return"
                    THEN /\ FetchReturns(r, cls.err, cls.dest)
                         /\ okDoc' = [okDoc EXCEPT ![r] =
                                        IF cls.err = nil THEN resp.doc ELSE @]
                         /\ waits' = waits
                    ELSE /\ okDoc' = okDoc
                         /\ IF attempt[r] + 1 <= maxRetries
                            THEN /\ lastErr' = [lastErr EXCEPT ![r] = cls.err]
                                 /\ attempt' = [attempt EXCEPT ![r] = @ + 1]
                                 /\ dest' = [dest EXCEPT ![r] = cls.dest]
                                 /\ pc' = [pc EXCEPT ![r] = "backoff"]
                                 /\ timer' = [timer EXCEPT ![r] = "armed"]
                                 /\ waits' = [waits EXCEPT ![r] =
                                                Append(@, Backoff(attempt[r] + 1))]
                                 /\ UNCHANGED <<ret, posts>>
                            ELSE /\ FetchReturns(r, MaxRetriesExceeded(cls.err), cls.dest)
                                 /\ waits' = waits
    /\ UNCHANGED <<baseURLValid, mctx, now, store, cache, runsStarted, ctx,
                   idx, successCount, errorCount, keysFound, upserts, invalCalls,
                   invalErr>>
    /\ lastFetched' = IF okDoc'[r] # NoDoc THEN r ELSE lastFetched
    /\ UNCHANGED <<lastWrite, hostVars, startedAt, startCtx, readVars>>

\* client.go:68  the backoff has elapsed: time.After's channel becomes ready
TimerFires(r) ==
    /\ pc[r] = "backoff"
    /\ timer[r] = "armed"
    /\ timer' = [timer EXCEPT ![r] = "fired"]
    /\ UNCHANGED <<baseURLValid, mctx, now, store, cache, runsStarted, pc, ctx, ret,
                   attempt, lastErr, dest, attempts, lastResp, lastFailure, waits,
                   okDoc, syncVars>>
    /\ UNCHANGED <<lastWrite, hostVars, startedAt, startCtx, readVars, lastFetched>>

\* client.go:66-67  the select takes <-ctx.Done(): retryRequest returns ctx.Err()
SelectDone(r) ==
    /\ pc[r] = "backoff"
    /\ CtxDone(ctx[r])
    /\ FetchReturns(r, CtxErr(ctx[r]), dest[r])
    /\ UNCHANGED <<baseURLValid, mctx, now, store, cache, runsStarted, ctx,
                   attempts, lastResp, lastFailure, waits, okDoc,
                   idx, successCount, errorCount, keysFound, upserts, invalCalls,
                   invalErr>>
    /\ UNCHANGED <<lastWrite, hostVars, startedAt, startCtx, readVars, lastFetched>>

\* client.go:68-69  the select takes <-time.After(backoff): the next request follows.
\* With both channels ready the select takes either.
SelectTimer(r) ==
    /\ pc[r] = "backoff"
    /\ timer[r] = "fired"
    /\ pc' = [pc EXCEPT ![r] = "request"]
    /\ timer' = [timer EXCEPT ![r] = "none"]
    /\ UNCHANGED <<baseURLValid, mctx, now, store, cache, runsStarted, ctx, ret,
                   attempt, lastErr, dest, attempts, lastResp, lastFailure, waits,
                   okDoc, syncVars>>
    /\ UNCHANGED <<lastWrite, hostVars, startedAt, startCtx, readVars, lastFetched>>

\* a range loop that gives up at the first failed upsert
RangeDoneOnError(i, n, ok) == i >= n \/ ~ok

\* jobs.go:93, 107  the range loop ends after the last of the n posts, whatever the
\* upsert at position i returned
RangeDone(i, n, ok) == i >= n

\* a loop whose successCount counts the rows inserted
UpsertCountsInserts(r) ==
    /\ pc[r] = "upsert"
    /\ \E ok \in BOOLEAN :
         LET item == ItemOf(posts[r][idx[r]])
             sc == IF ok /\ \A row \in store : row.external_id # item.ExternalID
                   THEN successCount[r] + 1 ELSE successCount[r]
             ec == IF ok THEN errorCount[r] ELSE errorCount[r] + 1
         IN /\ store' = IF ok THEN UpsertItem(store, item, now) ELSE store
            /\ lastWrite' = IF ok THEN [lastWrite EXCEPT ![item.ExternalID] = item]
                            ELSE lastWrite
            /\ successCount' = [successCount EXCEPT ![r] = sc]
            /\ errorCount' = [errorCount EXCEPT ![r] = ec]
            /\ upserts' = [upserts EXCEPT ![r] = Append(@, [item |-> item, ok |-> ok])]
            /\ idx' = [idx EXCEPT ![r] = @ + 1]
            /\ IF RangeDone(idx[r], Len(posts[r]), ok)
               THEN AfterUpserts(r, sc, ec, Len(posts[r]))
               ELSE UNCHANGED <<pc, ret>>
    /\ UNCHANGED <<baseURLValid, mctx, now, cache, runsStarted, ctx, fetchVars,
                   posts, keysFound, invalCalls, invalErr>>
    /\ UNCHANGED <<hostVars, startedAt, startCtx, readVars, lastFetched>>

\* a range loop that ends when the run's context is done
UpsertUntilDone(r) ==
    /\ pc[r] = "upsert"
    /\ \E ok \in BOOLEAN :
         LET item == ItemOf(posts[r][idx[r]])
             sc == IF ok THEN successCount[r] + 1 ELSE successCount[r]
             ec == IF ok THEN errorCount[r] ELSE errorCount[r] + 1
         IN /\ store' = IF ok THEN UpsertItem(store, item, now) ELSE store
            /\ lastWrite' = IF ok THEN [lastWrite EXCEPT ![item.ExternalID] = item]
                            ELSE lastWrite
            /\ successCount' = [successCount EXCEPT ![r] = sc]
            /\ errorCount' = [errorCount EXCEPT ![r] = ec]
            /\ upserts' = [upserts EXCEPT ![r] = Append(@, [item |-> item, ok |-> ok])]
            /\ idx' = [idx EXCEPT ![r] = @ + 1]
            /\ IF RangeDone(idx[r], Len(posts[r]), ok) \/ CtxDone(ctx[r])
               THEN AfterUpserts(r, sc, ec, Len(posts[r]))
               ELSE UNCHANGED <<pc, ret>>
    /\ UNCHANGED <<baseURLValid, mctx, now, cache, runsStarted, ctx, fetchVars,
                   posts, keysFound, invalCalls, invalErr>>
    /\ UNCHANGED <<hostVars, startedAt, startCtx, readVars, lastFetched>>

\* jobs.go:93-107  one iteration of the range loop: the post is mapped to an Item
\* and upserted; the statement fails (ok = FALSE) or is applied.  UpsertItem takes
\* no context.
Upsert(r) ==
    /\ pc[r] = "upsert"
    /\ \E ok \in BOOLEAN :
         LET item == ItemOf(posts[r][idx[r]])
             sc == IF ok THEN successCount[r] + 1 ELSE successCount[r]
             ec == IF ok THEN errorCount[r] ELSE errorCount[r] + 1
         IN /\ store' = IF ok THEN UpsertItem(store, item, now) ELSE store
            /\ lastWrite' = IF ok THEN [lastWrite EXCEPT ![item.ExternalID] = item]
                            ELSE lastWrite
            /\ successCount' = [successCount EXCEPT ![r] = sc]
            /\ errorCount' = [errorCount EXCEPT ![r] = ec]
            /\ upserts' = [upserts EXCEPT ![r] = Append(@, [item |-> item, ok |-> ok])]
            /\ idx' = [idx EXCEPT ![r] = @ + 1]
            /\ IF RangeDone(idx[r], Len(posts[r]), ok)
               THEN AfterUpserts(r, sc, ec, Len(posts[r]))
               ELSE UNCHANGED <<pc, ret>>
    /\ UNCHANGED <<baseURLValid, mctx, now, cache, runsStarted, ctx, fetchVars,
                   posts, keysFound, invalCalls, invalErr>>
    /\ UNCHANGED <<hostVars, startedAt, startCtx, readVars, lastFetched>>

\* jobs.go:111-113, redis.go:58-62, 69  InvalidatePattern(ctx, "items:*") up to the
\* KEYS command: it fails (always so when ctx is done), or finds no key and
\* returns nil, or goes on to delete the keys found.  An error is only logged.
InvalidateKeys(r) ==
    /\ pc[r] = "invalidate"
    /\ invalCalls' = [invalCalls EXCEPT ![r] = @ + 1]
    /\ \E failed \in (IF CtxDone(ctx[r]) THEN {TRUE} ELSE BOOLEAN) :
         LET keys == IF failed THEN {} ELSE Keys(cache, itemsPattern)
         IN /\ invalErr' = [invalErr EXCEPT ![r] = failed]
            /\ keysFound' = [keysFound EXCEPT ![r] = keys]
            /\ IF keys # {}
               THEN /\ pc' = [pc EXCEPT ![r] = "del"]
                    /\ ret' = ret
               ELSE /\ pc' = [pc EXCEPT ![r] = "done"]
                    /\ ret' = [ret EXCEPT ![r] = SyncResult(errorCount[r], Len(posts[r]))]
    /\ UNCHANGED <<baseURLValid, mctx, now, store, cache, runsStarted, ctx, fetchVars,
                   posts, idx, successCount, errorCount, upserts>>
    /\ UNCHANGED <<lastWrite, hostVars, startedAt, startCtx, readVars, lastFetched>>

\* redis.go:64-66, jobs.go:111-128  the DEL of the keys found, and the return of
\* syncData
InvalidateDel(r) ==
    /\ pc[r] = "del"
    /\ \E failed \in (IF CtxDone(ctx[r]) THEN {TRUE} ELSE BOOLEAN) :
         /\ invalErr' = [invalErr EXCEPT ![r] = failed]
         /\ cache' = IF failed THEN cache ELSE Del(cache, keysFound[r])
    /\ pc' = [pc EXCEPT ![r] = "done"]
    /\ ret' = [ret EXCEPT ![r] = SyncResult(errorCount[r], Len(posts[r]))]
    /\ UNCHANGED <<baseURLValid, mctx, now, store, runsStarted, ctx, fetchVars,
                   posts, idx, successCount, errorCount, keysFound, upserts,
                   invalCalls>>
    /\ UNCHANGED <<lastWrite, hostVars, startedAt, startCtx, readVars, lastFetched>>

\* The run is in syncData.
InFlight(r) == pc[r] \notin {"idle", "spawned", "done"}

\* a deadline that takes the rows the run has written out of the store again
DeadlineExpiresRollsBack(r) ==
    /\ InFlight(r)
    /\ ctx[r] = "live"
    /\ ctx' = [ctx EXCEPT ![r] = "deadline"]
    /\ store' = {row \in store :
                   \A i \in 1..Len(upserts[r]) :
                     ~(upserts[r][i].ok /\ upserts[r][i].item.ExternalID = row.external_id)}
    /\ UNCHANGED <<baseURLValid, mctx, now, cache, runsStarted, pc, ret,
                   fetchVars, syncVars>>
    /\ UNCHANGED <<lastWrite, hostVars, startedAt, startCtx, readVars, lastFetched>>

\* jobs.go:77  the 2-minute deadline of the run's context passes
DeadlineExpires(r) ==
    /\ InFlight(r)
    /\ ctx[r] = "live"
    /\ ctx' = [ctx EXCEPT ![r] = "deadline"]
    /\ UNCHANGED <<baseURLValid, mctx, now, store, cache, runsStarted, pc, ret,
                   fetchVars, syncVars>>
    /\ UNCHANGED <<lastWrite, hostVars, startedAt, startCtx, readVars, lastFetched>>

\* The store's clock advances by a second.  Only UpsertItem reads the clock
\* (NOW()), so the step is taken when a run is about to upsert.
Tick ==
    /\ now < MaxTime
    /\ \E r \in RunIds : pc[r] = "upsert"
    /\ now' = now + 1
    /\ UNCHANGED <<baseURLValid, mctx, store, cache, runsStarted, pc, ctx, ret,
                   fetchVars, syncVars>>
    /\ UNCHANGED <<lastWrite, hostVars, startedAt, startCtx, readVars, lastFetched>>

\* ------------------------------------------------------------- the scheduler
\* jobs.go:45-66, main.go:44  Start registers the cron entry (the expression is a
\* constant the parser accepts), starts the cron scheduler, which runs in its own
\* goroutine, spawns the goroutine of the initial sync, and returns.
Start ==
    /\ mainPc = "new"
    /\ mainPc' = "started"
    /\ cronRunning' = [cronRunning EXCEPT !["main"] = TRUE]
    /\ pc' = [pc EXCEPT !["startup"] = "spawned"]
    /\ UNCHANGED <<baseURLValid, mctx, now, store, cache, runsStarted, ctx, ret,
                   fetchVars, syncVars, lastWrite, startedAt, startCtx, readVars,
                   lastFetched,
                   source, reqCtx, syncResponse, wall, due>>

\* jobs.go:61-65  the goroutine of the initial sync is scheduled and enters syncData
StartupRuns ==
    /\ pc["startup"] = "spawned"
    /\ StartRun("startup")
    /\ UNCHANGED hostVars

\* jobs.go:47-51  the running cron scheduler starts the entry's job in a goroutine of
\* its own, whatever the earlier runs are doing: syncData is entered
CronFires ==
    /\ cronRunning["main"]
    /\ StartRun("cron")
    /\ due' = FALSE
    /\ UNCHANGED <<source, mainPc, cronRunning, reqCtx, syncResponse, wall>>

\* jobs.go:70  Stop up to m.cancel(), called with main at `from`: the Manager's
\* context is canceled, and with it the context of every run derived from it.  The
\* Manager that main stops is its own.
StopCancelFrom(from) ==
    /\ mainPc = from
    /\ mainPc' = "stopping"
    /\ mctx' = [mctx EXCEPT !["main"] = "canceled"]
    /\ ctx' = [r \in RunIds |->
                 IF ManagerOf(r) = "main" /\ InFlight(r) /\ ctx[r] = "live"
                 THEN "canceled" ELSE ctx[r]]
    /\ UNCHANGED <<baseURLValid, now, store, cache, runsStarted, pc, ret,
                   fetchVars, syncVars, lastWrite, startedAt, startCtx, readVars,
                   lastFetched,
                   source, cronRunning, reqCtx, syncResponse, wall, due>>

\* main.go:45  the deferred Stop of the started Manager
StopCancel == StopCancelFrom("started")

\* Stop called once more on the stopped Manager
StopAgain == StopCancelFrom("stopped")

\* a cron.Stop() that flips the scheduler's running flag
StopCronFlips ==
    /\ mainPc = "stopping"
    /\ mainPc' = "stopped"
    /\ cronRunning' = [cronRunning EXCEPT !["main"] = ~@]
    /\ due' = FALSE
    /\ UNCHANGED <<baseURLValid, mctx, now, store, cache, runsStarted, pc, ctx, ret,
                   fetchVars, syncVars, lastWrite, startedAt, startCtx, readVars,
                   lastFetched,
                   source, reqCtx, syncResponse, wall>>

\* jobs.go:71-73  m.cron.Stop() and the return of Stop: the scheduler starts no
\* further job; the jobs that run go on, and Stop does not wait for them.
StopCron ==
    /\ mainPc = "stopping"
    /\ mainPc' = "stopped"
    /\ cronRunning' = [cronRunning EXCEPT !["main"] = FALSE]
    /\ due' = FALSE
    /\ UNCHANGED <<baseURLValid, mctx, now, store, cache, runsStarted, pc, ctx, ret,
                   fetchVars, syncVars, lastWrite, startedAt, startCtx, readVars,
                   lastFetched,
                   source, reqCtx, syncResponse, wall>>

\* ---------------------------------------------------------- POST /api/v1/sync
\* part_001:95-101, jobs.go:131-132  the handler derives a context from the
\* request's and calls SyncDataManual with it, which calls m.syncData() on the
\* handler's Manager.
SyncRequest ==
    /\ reqCtx = "none"
    /\ reqCtx' = "live"
    /\ StartRun("manual")
    /\ UNCHANGED <<source, mainPc, cronRunning, syncResponse, wall, due>>

\* part_001:96  the client goes away, or the 3 minutes of the handler's context pass
RequestCtxDone ==
    /\ reqCtx = "live"
    /\ reqCtx' \in {"canceled", "deadline"}
    /\ UNCHANGED <<baseURLValid, mctx, now, store, cache, runsStarted, pc, ctx, ret,
                   fetchVars, syncVars, lastWrite, startedAt, startCtx, readVars,
                   lastFetched,
                   source, mainPc, cronRunning, syncResponse, wall, due>>

\* a handler that answers 200 whatever SyncDataManual returned
SyncRespondAlwaysCompleted ==
    /\ reqCtx # "none"
    /\ pc["manual"] = "done"
    /\ syncResponse' = SyncCompletedResponse
    /\ reqCtx' = "none"
    /\ UNCHANGED <<baseURLValid, mctx, now, store, cache, runsStarted, pc, ctx, ret,
                   fetchVars, syncVars, lastWrite, startedAt, startCtx, readVars,
                   lastFetched,
                   source, mainPc, cronRunning, wall, due>>

\* part_001:101-114  SyncDataManual has returned: the handler answers 500 with the
\* error or 200, and its context is released.
SyncRespond ==
    /\ reqCtx # "none"
    /\ pc["manual"] = "done"
    /\ syncResponse' = IF ret["manual"] # nil
                       THEN SyncFailedResponse(ret["manual"])
                       ELSE SyncCompletedResponse
    /\ reqCtx' = "none"
    /\ UNCHANGED <<baseURLValid, mctx, now, store, cache, runsStarted, pc, ctx, ret,
                   fetchVars, syncVars, lastWrite, startedAt, startCtx, readVars,
                   lastFetched,
                   source, mainPc, cronRunning, wall, due>>

\* ---------------------------------------------------------- GET /api/v1/items
\* What getItems and healthCheck leave alone.
syncSide == <<baseURLValid, mctx, now, store, runsStarted, pc, ctx, ret, fetchVars,
              syncVars, lastWrite, hostVars, startedAt, startCtx, lastFetched>>

\* part_001:117-136, main.go:44-70  getItems up to the cache read, in the server that
\* main starts after the Manager: GetJSON into the nil items succeeds and the
\* handler answers from the cache, or it returns an error (the cache does not
\* answer, the key is not set, the value does not decode) and the handler goes on
\* to the store.
GetItemsCacheGet ==
    /\ mainPc # "new"
    /\ getPc = "idle"
    /\ Len(itemsResponses) < MaxReads
    /\ \E reachable \in BOOLEAN :
         LET got == GetJSON(cache, itemsCacheKey, reachable, NilItems)
         IN IF got.err = nil
            THEN /\ itemsResponses' = Append(itemsResponses, ItemsHitResponse(got.value))
                 /\ items' = NilItems
                 /\ getErr' = nil
                 /\ getPc' = "idle"
            ELSE /\ itemsResponses' = itemsResponses
                 /\ items' = got.value
                 /\ getErr' = got.err
                 /\ getPc' = "query"
    /\ UNCHANGED <<syncSide, cache, healthResponse, pinged>>

\* a handler that caches an empty listing when the store cannot be read
GetItemsQueryCachesFailure ==
    /\ getPc = "query"
    /\ \E err \in GetAllItemsErrors :
         itemsResponses' = Append(itemsResponses, ItemsFailedResponse(err))
    /\ cache' = SetJSON(cache, itemsCacheKey, NilItems, itemsCacheTTLMinutes, wall)
    /\ items' = NilItems
    /\ getErr' = nil
    /\ getPc' = "idle"
    /\ UNCHANGED <<syncSide, healthResponse, pinged>>

\* part_001:136-144  h.db.GetAllItems(): the query fails and the handler answers
\* 500 with the error, or items is assigned the rows read
GetItemsQuery ==
    /\ getPc = "query"
    /\ \/ /\ \E err \in GetAllItemsErrors :
               itemsResponses' = Append(itemsResponses, ItemsFailedResponse(err))
          /\ items' = NilItems
          /\ getErr' = nil
          /\ getPc' = "idle"
       \/ /\ items' \in GetAllItems(store)
          /\ itemsResponses' = itemsResponses
          /\ getErr' = getErr
          /\ getPc' = "set"
    /\ UNCHANGED <<syncSide, cache, healthResponse, pinged>>

\* a handler that answers 500 when the items cannot be cached
GetItemsSetOrFail ==
    /\ getPc = "set"
    /\ \E ok \in BOOLEAN :
         /\ cache' = IF ok
                     THEN SetJSON(cache, itemsCacheKey, items, itemsCacheTTLMinutes, wall)
                     ELSE cache
         /\ itemsResponses' = Append(itemsResponses,
                                     IF ok THEN ItemsMissResponse(items)
                                     ELSE ItemsFailedResponse(NetError))
    /\ items' = NilItems
    /\ getErr' = nil
    /\ getPc' = "idle"
    /\ UNCHANGED <<syncSide, healthResponse, pinged>>

\* part_001:146-158  SetJSON(ctx, itemsCacheKey, items, itemsCacheTTL) stores the items
\* or fails, which is only logged, and the handler answers with the items read
GetItemsSet ==
    /\ getPc = "set"
    /\ \E ok \in BOOLEAN :
         cache' = IF ok
                  THEN SetJSON(cache, itemsCacheKey, items, itemsCacheTTLMinutes, wall)
                  ELSE cache
    /\ itemsResponses' = Append(itemsResponses, ItemsMissResponse(items))
    /\ items' = NilItems
    /\ getErr' = nil
    /\ getPc' = "idle"
    /\ UNCHANGED <<syncSide, healthResponse, pinged>>

\* ---------------------------------------------------------------- GET /health
\* healthCheck pinging the cache whatever the store answered, and reporting the
\* cache's failure first
HealthCheckPingsBoth ==
    /\ mainPc # "new"
    /\ \E dbUp, redisUp \in BOOLEAN :
         /\ pinged' = [db |-> IF dbUp THEN "ok" ELSE "failed",
                       redis |-> IF redisUp THEN "ok" ELSE "failed"]
         /\ healthResponse' = IF ~redisUp
                              THEN UnhealthyResponse("redis connection failed")
                              ELSE IF ~dbUp
                                   THEN UnhealthyResponse("database connection failed")
                                   ELSE HealthyResponse
    /\ UNCHANGED <<syncSide, cache, getPc, items, getErr, itemsResponses>>

\* part_001:64-92  healthCheck with the store and the cache answering the ping or
\* not: the cache is pinged only after the store has answered
HealthCheck ==
    /\ mainPc # "new"
    /\ \E dbUp, redisUp \in BOOLEAN :
         IF ~dbUp
         THEN /\ healthResponse' = UnhealthyResponse("database connection failed")
              /\ pinged' = [db |-> "failed", redis |-> "none"]
         ELSE /\ pinged' = [db |-> "ok", redis |-> IF redisUp THEN "ok" ELSE "failed"]
              /\ healthResponse' = IF ~redisUp
                                   THEN UnhealthyResponse("redis connection failed")
                                   ELSE HealthyResponse
    /\ UNCHANGED <<syncSide, cache, getPc, items, getErr, itemsResponses>>

\* The steps of a run that is in syncData.
RunStep(r) ==
    \/ DoRequest(r)
    \/ TimerFires(r)
    \/ SelectDone(r)
    \/ SelectTimer(r)
    \/ Upsert(r)
    \/ InvalidateKeys(r)
    \/ InvalidateDel(r)
    \/ DeadlineExpires(r)

\* The runs of the cron entry of main's Manager, one after the other, from Start to
\* Stop, against every answer of the external source.  The goroutine of the initial
\* sync is not scheduled, and the runs are over within a second of the store's clock.
Next ==
    \/ Start
    \/ CronFires
    \/ RunStep("cron")
    \/ StopCancel
    \/ StopCron

Spec == Init /\ [][Next]_vars

\* ------------------------------------------------- the runs side by side
\* The external source answers 200 with one of two lists that differ in the payload
\* of id 1.
SchedInit ==
    /\ baseURLValid = TRUE
    /\ source = {StatusResponse(200, TRUE, DocOne), StatusResponse(200, TRUE, DocTwo)}
    /\ wall = 0
    /\ Constructed

\* The initial sync, the cron entry's runs and the runs of POST /sync side by side,
\* with Start, Stop and a repeated Stop, all within a second of the store's clock.
SchedNext ==
    \/ Start
    \/ StartupRuns
    \/ CronFires
    \/ SyncRequest
    \/ RequestCtxDone
    \/ SyncRespond
    \/ \E r \in RunIds : RunStep(r)
    \/ StopCancel
    \/ StopAgain
    \/ StopCron

SchedSpec == SchedInit /\ [][SchedNext]_vars

\* ------------------------------------------------------- the wall clock
\* jobs.go:47, 77  a minute passes, from Start on.  The cron scheduler and the
\* deadline of a context are timers: the clock does not pass the activation time of
\* the cron entry before its job is started, nor the deadline of a run in flight
\* before its context is done.  The entry is activated when the minute reached is a
\* multiple of 15.
Tock ==
    /\ mainPc # "new"
    /\ wall < MaxWall
    /\ ~due
    /\ \A r \in RunIds :
         (InFlight(r) /\ ctx[r] = "live") => wall < startedAt[r] + syncTimeoutMinutes
    /\ wall' = wall + 1
    /\ cache' = Expire(cache, wall + 1)
    /\ due' = (cronRunning["main"] /\ (wall + 1) % cronEveryMinutes = 0)
    /\ UNCHANGED <<baseURLValid, mctx, now, store, runsStarted, pc, ctx, ret,
                   fetchVars, syncVars, lastWrite, startedAt, startCtx, readVars,
                   lastFetched,
                   source, mainPc, cronRunning, reqCtx, syncResponse>>

\* jobs.go:47-51  the cron scheduler starts the job at the entry's activation time
CronFiresOnTime ==
    /\ due
    /\ CronFires

\* jobs.go:77  the deadline of the run's context passes, 2 minutes after syncData
\* derived it
DeadlineOnTime(r) ==
    /\ wall >= startedAt[r] + syncTimeoutMinutes
    /\ DeadlineExpires(r)

\* Start is called in any minute of the quarter of an hour, and the external source
\* answers 503.
ClockInit ==
    /\ baseURLValid = TRUE
    /\ source = {StatusResponse(503, FALSE, JGarbage)}
    /\ wall \in 0..(cronEveryMinutes - 1)
    /\ Constructed

\* The initial sync and the cron entry's runs by the wall clock, with Start, Stop and
\* a repeated Stop.
ClockNext ==
    \/ Start
    \/ StartupRuns
    \/ CronFiresOnTime
    \/ \E r \in {"startup", "cron"} :
         \/ DoRequest(r)
         \/ TimerFires(r)
         \/ SelectDone(r)
         \/ SelectTimer(r)
         \/ DeadlineOnTime(r)
    \/ StopCancel
    \/ StopAgain
    \/ StopCron
    \/ Tock

ClockSpec == ClockInit /\ [][ClockNext]_vars

\* ------------------------------------------------- the store under the runs
\* As SchedInit, with nothing cached under items:all.
StoreInit ==
    /\ SchedInit
    /\ ~cache[itemsCacheKey].present

\* The initial sync, the cron entry's runs and the runs of POST /sync side by side
\* while the store's clock advances: the runs of Managers that are not stopped and
\* whose deadlines do not pass.
StoreNext ==
    \/ Start
    \/ StartupRuns
    \/ CronFires
    \/ SyncRequest
    \/ SyncRespond
    \/ \E r \in RunIds :
         \/ DoRequest(r)
         \/ Upsert(r)
         \/ InvalidateKeys(r)
    \/ Tick

StoreSpec == StoreInit /\ [][StoreNext]_vars

\* ------------------------------------------------- the cache by the clock
\* The external source answers 200 with a list of one record, and items:all and the
\* derived key are not set or hold bytes that are not JSON.
CacheInit ==
    /\ baseURLValid = TRUE
    /\ source = {StatusResponse(200, TRUE, DocOne)}
    /\ wall = 0
    /\ Constructed

\* The requests for the items, one after the other, beside the initial sync, by the
\* wall clock.
CacheNext ==
    \/ Start
    \/ StartupRuns
    \/ DoRequest("startup")
    \/ Upsert("startup")
    \/ InvalidateKeys("startup")
    \/ InvalidateDel("startup")
    \/ GetItemsCacheGet
    \/ GetItemsQuery
    \/ GetItemsSet
    \/ Tock

CacheSpec == CacheInit /\ [][CacheNext]_vars

\* ------------------------------------------------- reads after a sync run
\* part_001:117  a request for the items that arrives when the initial sync has
\* returned
GetItemsAfterSync ==
    /\ pc["startup"] = "done"
    /\ GetItemsCacheGet

\* The initial sync alone, and then the requests for the items, one after the other,
\* by the wall clock.
ScenarioNext ==
    \/ Start
    \/ StartupRuns
    \/ DoRequest("startup")
    \/ Upsert("startup")
    \/ InvalidateKeys("startup")
    \/ InvalidateDel("startup")
    \/ GetItemsAfterSync
    \/ GetItemsQuery
    \/ GetItemsSet
    \/ Tock

ScenarioSpec == CacheInit /\ [][ScenarioNext]_vars

\* ------------------------------------------------- the store under the reads
\* The external source answers 200 with a list of three records, the third a later
\* version of the first, and nothing is cached under items:all.
ReadInit ==
    /\ baseURLValid = TRUE
    /\ source = {StatusResponse(200, TRUE, DocResync)}
    /\ wall = 0
    /\ Constructed
    /\ ~cache[itemsCacheKey].present

\* The requests for the items, one after the other, beside the initial sync, while
\* the store's clock advances.
ReadNext ==
    \/ Start
    \/ StartupRuns
    \/ DoRequest("startup")
    \/ Upsert("startup")
    \/ InvalidateKeys("startup")
    \/ InvalidateDel("startup")
    \/ GetItemsCacheGet
    \/ GetItemsQuery
    \/ GetItemsSet
    \/ Tick

ReadSpec == ReadInit /\ [][ReadNext]_vars

\* ----------------------------------------------------------- the health path
\* The process is started in any minute of the quarter of an hour.
HealthInit ==
    /\ baseURLValid = TRUE
    /\ source = {StatusResponse(503, FALSE, JGarbage)}
    /\ wall \in 0..(cronEveryMinutes - 1)
    /\ Constructed

\* The health checks of the process from Start to Stop, by the wall clock.
HealthNext ==
    \/ Start
    \/ HealthCheck
    \/ StopCancel
    \/ StopCron
    \/ Tock

HealthSpec == HealthInit /\ [][HealthNext]_vars

\* ============================================================== properties
\* What the run's history says about its fetch.
FetchSucceeded(r) == okDoc[r] # NoDoc

IsExhaustion(err) ==
    /\ Len(err) >= 3
    /\ err[3].msg = "max retries exceeded, last error"

\* The error syncData returns when retryRequest returned the context's error from
\* the backoff select.
ReturnedCtxErr(r) == ret[r] \in {FetchFailed(Canceled), FetchFailed(DeadlineExceeded)}

IsTerminalStatus(code) == code >= 400 /\ code < 500 /\ code # 429

\* ---------------------------------------------------------------------- C1
\* C1: a Fetcher call never makes more than 4 HTTP attempts; a call all of whose
\* attempts ended in a retryable failure, and that was not ended by the context in a
\* backoff, has made exactly 4 attempts and failed with "max retries exceeded"
\* wrapping the failure of the last attempt; and that error is returned only after
\* 4 attempts.
C1_RetryBound ==
    \A r \in RunIds :
      /\ attempts[r] <= 4
      /\ ( /\ pc[r] = "done"
           /\ attempts[r] >= 1
           /\ ~FetchSucceeded(r)
           /\ ~IsTerminalStatus(lastResp[r].code)
           /\ ~ReturnedCtxErr(r) )
         => /\ attempts[r] = 4
            /\ lastFailure[r] # nil
            /\ ret[r] = Wrap("failed to fetch posts", Wrap("failed to fetch posts",
                          Wrap("max retries exceeded, last error", lastFailure[r])))
      /\ (pc[r] = "done" /\ IsExhaustion(ret[r])) => attempts[r] = 4

\* An endpoint that answered 500 to the 4th attempt: the call is exhausted.
C1_Witness ==
    /\ pc["cron"] = "done"
    /\ attempts["cron"] = 4
    /\ lastResp["cron"].code = 500
    /\ ret["cron"] = Wrap("failed to fetch posts", Wrap("failed to fetch posts",
                       Wrap("max retries exceeded, last error", Err("server error", 500, 0))))

\* ---------------------------------------------------------------------- C2
\* C2: when the last attempt received a 4xx status other than 429, the call has
\* ended with the client error of that status, and no backoff was started after
\* that attempt (so a 404 on the first attempt means one attempt and no wait).
C2_TerminalShortCircuit ==
    \A r \in RunIds :
      (lastResp[r].kind = "status" /\ IsTerminalStatus(lastResp[r].code))
      => /\ pc[r] = "done"
         /\ ret[r] = Wrap("failed to fetch posts", Wrap("failed to fetch posts",
                       Err("client error", lastResp[r].code, 0)))
         /\ Len(waits[r]) = attempts[r] - 1
         /\ posts[r] = << >>

\* A 404 on the first attempt.
C2_Witness ==
    /\ pc["cron"] = "done"
    /\ lastResp["cron"].code = 404
    /\ attempts["cron"] = 1
    /\ waits["cron"] = << >>

\* ---------------------------------------------------------------------- C3
\* A body that can be parsed as a list of records.
Parseable(doc) ==
    /\ doc.kind = "array"
    /\ \A i \in 1..Len(doc.elems) : ~JHasTypeError(doc.elems[i])

\* The outcomes of an attempt that C3 lists.
IsTransient(resp) ==
    \/ resp.kind = "transport"
    \/ resp.kind = "status" /\ resp.code >= 500
    \/ resp.kind = "status" /\ resp.code = 429
    \/ /\ resp.kind = "status"
       /\ resp.code >= 200 /\ resp.code < 300
       /\ (~resp.readable \/ ~Parseable(resp.doc))

\* C3: an attempt that ends in a transport failure, a 5xx, a 429 or a 2xx whose
\* body cannot be read or parsed does not end the call while fewer than 4 attempts
\* have been made: the Fetcher is in the backoff before the next attempt or at the
\* next request, unless the backoff select has returned the context's error.
C3_TransientRetried ==
    \A r \in RunIds :
      (attempts[r] >= 1 /\ attempts[r] < 4 /\ IsTransient(lastResp[r]))
      => \/ /\ pc[r] \in {"backoff", "request"}
            /\ attempt[r] = attempts[r]
            /\ Len(waits[r]) = attempts[r]
            /\ lastErr[r] = lastFailure[r]
            /\ lastErr[r] # nil
         \/ pc[r] = "done" /\ CtxDone(ctx[r]) /\ ReturnedCtxErr(r)

\* A 429 on the first attempt, and the second request about to be sent.
C3_Witness ==
    /\ pc["cron"] = "request"
    /\ attempts["cron"] = 1
    /\ lastResp["cron"].code = 429
    /\ ~CtxDone(ctx["cron"])

\* ---------------------------------------------------------------------- C4
BackoffSequence == <<1, 2, 4, 8>>

C5_CancelledWaitStep ==
    \A r \in RunIds :
      (pc[r] = "backoff" /\ CtxDone(ctx[r]) /\ timer[r] = "armed" /\ pc'[r] # "backoff")
      => /\ pc'[r] = "done"
         /\ ret'[r] = Wrap("failed to fetch posts", Wrap("failed to fetch posts",
                         CtxErr(ctx[r])))
         /\ attempts'[r] = attempts[r]
         /\ store' = store

\* An attempt made while the context is done fails with an error caused by the
\* context, and never starts the upserts.
C5_CancelledAttemptStep ==
    \A r \in RunIds :
      (CtxDone(ctx[r]) /\ attempts'[r] = attempts[r] + 1)
      => /\ lastFailure'[r] # nil
         /\ ErrorsIs(lastFailure'[r], CtxErr(ctx[r]))
         /\ ~FetchSucceeded(r)'
         /\ pc'[r] \in {"backoff", "done"}
         /\ (pc'[r] = "done" => ErrorsIs(ret'[r], CtxErr(ctx[r])))

\* C5: when the context is done during a backoff wait the select can return at
\* once, whatever time of the backoff is left, and the call then fails with the
\* context's error without a further attempt; an attempt in flight under a done
\* context fails with an error caused by the context; no attempt succeeds after the
\* context is done.
C5_CancellationEndsFetch ==
    /\ [](\A r \in RunIds : (pc[r] = "backoff" /\ CtxDone(ctx[r])) => ENABLED SelectDone(r))
    /\ [][C5_CancelledWaitStep /\ C5_CancelledAttemptStep]_vars

\* The context was done in the second backoff: two attempts, two waits started, and
\* the context's error returned.
C5_Witness ==
    /\ pc["cron"] = "done"
    /\ ReturnedCtxErr("cron")
    /\ attempts["cron"] = 2
    /\ Len(waits["cron"]) = 2

\* ---------------------------------------------------------------------- C6
\* C6: the fetch returns records exactly when an attempt among the first 4 got a
\* 2xx with a parseable body, and the records are then those of that response;
\* otherwise the run has no records and a non-nil error.
C6_FetchResultIsResponse ==
    \A r \in RunIds :
      /\ FetchSucceeded(r)
         => /\ attempts[r] <= 4
            /\ lastResp[r].code >= 200 /\ lastResp[r].code < 300
            /\ Parseable(okDoc[r])
            /\ okDoc[r] = lastResp[r].doc
            /\ posts[r] = RecordsOf(okDoc[r])
      /\ (pc[r] = "done" /\ ~FetchSucceeded(r))
         => /\ posts[r] = << >>
            /\ ret[r] # nil

\* ---------------------------------------------------------------------- C7
\* C7: while the fetch of a run has not succeeded the run calls no UpsertItem and no
\* InvalidatePattern and its counts are zero, and when its fetch has failed the run
\* has returned a non-nil error.
C7_FetchFailureAborts ==
    \A r \in RunIds :
      ~FetchSucceeded(r)
      => /\ pc[r] \in {"idle", "spawned", "request", "backoff", "done"}
         /\ upserts[r] = << >>
         /\ invalCalls[r] = 0
         /\ successCount[r] = 0
         /\ errorCount[r] = 0
         /\ (pc[r] = "done" => ret[r] # nil /\ ret[r][1].msg = "failed to fetch posts")

\* The fetch failed after 4 attempts, the last of them a 2xx whose body was decoded
\* in part before the type error was found.
C7_Witness ==
    /\ pc["cron"] = "done"
    /\ attempts["cron"] = 4
    /\ lastResp["cron"].doc = DocBadType
    /\ lastResp["cron"].readable
    /\ upserts["cron"] = << >>
    /\ ret["cron"] # nil

\* ---------------------------------------------------------------------- C8
CountOk(log) == Cardinality({i \in 1..Len(log) : log[i].ok})

CountFailed(log) == Cardinality({i \in 1..Len(log) : ~log[i].ok})

\* C8: in a run whose fetch succeeded with M records the i-th UpsertItem call is for
\* the i-th record, the counts are those of the calls that succeeded and failed, and
\* once the loop is over there was one call for each record and
\* succeeded + failed = M.
C8_UpsertAccounting ==
    \A r \in RunIds :
      FetchSucceeded(r)
      => /\ Len(upserts[r]) <= Len(posts[r])
         /\ \A i \in 1..Len(upserts[r]) :
              /\ upserts[r][i].item.ExternalID = Itoa(posts[r][i].ID)
              /\ upserts[r][i].item.Title = posts[r][i].Title
              /\ upserts[r][i].item.Body = posts[r][i].Body
              /\ upserts[r][i].item.UserID = posts[r][i].UserID
         /\ successCount[r] = CountOk(upserts[r])
         /\ errorCount[r] = CountFailed(upserts[r])
         /\ (pc[r] \in {"invalidate", "del", "done"}
             => /\ Len(upserts[r]) = Len(posts[r])
                /\ successCount[r] + errorCount[r] = Len(posts[r]))

\* Two records, the upsert of the first failed and that of the second succeeded.
C8_Witness ==
    /\ pc["cron"] = "done"
    /\ Len(posts["cron"]) = 2
    /\ Len(upserts["cron"]) = 2
    /\ ~upserts["cron"][1].ok
    /\ upserts["cron"][2].ok
    /\ successCount["cron"] = 1
    /\ errorCount["cron"] = 1

\* ---------------------------------------------------------------------- C9
\* C9: a run calls InvalidatePattern at most once, only with successCount > 0 and
\* after the UpsertItem calls for all its records; a run that has returned after a
\* successful fetch has called it exactly when an upsert succeeded; only keys
\* matching "items:*" are deleted; and when the invalidation failed the run returns
\* what its counts say, with the counts those of its upserts.
C9_InvalidateIffSuccess ==
    \A r \in RunIds :
      /\ invalCalls[r] <= 1
      /\ (pc[r] \in {"invalidate", "del"} \/ invalCalls[r] = 1)
         => /\ successCount[r] > 0
            /\ Len(upserts[r]) = Len(posts[r])
      /\ (pc[r] = "done" /\ FetchSucceeded(r))
         => (invalCalls[r] = 1 <=> CountOk(upserts[r]) > 0)
      /\ \A k \in keysFound[r] : GlobMatch(itemsPattern, k)
      /\ cache[foreignKey].present
      /\ (pc[r] = "done" /\ invalErr[r])
         => /\ successCount[r] = CountOk(upserts[r])
            /\ errorCount[r] = CountFailed(upserts[r])
            /\ (ret[r] = nil <=> CountFailed(upserts[r]) = 0)

\* The invalidation of a run with one stored record failed, and the run returned nil.
C9_Witness ==
    /\ pc["cron"] = "done"
    /\ invalCalls["cron"] = 1
    /\ invalErr["cron"]
    /\ successCount["cron"] = 1
    /\ errorCount["cron"] = 0
    /\ ret["cron"] = nil

\* --------------------------------------------------------------------- C10
\* The last successful upsert of the log for the external id eid, when there is one.
LastStored(log, eid) ==
    LET hits == {i \in 1..Len(log) : log[i].ok /\ log[i].item.ExternalID = eid}
    IN CHOOSE i \in hits : \A j \in hits : j <= i

\* C10: a run that has returned after a successful fetch returns a non-nil error
\* exactly when its failure count is above 0, the error carrying N = the failure
\* count and M = the number of fetched records; and every record whose upsert
\* succeeded is in the store, with the payload of the last such upsert for its
\* external id.
C10_PartialFailureReported ==
    \A r \in RunIds :
      (pc[r] = "done" /\ FetchSucceeded(r))
      => /\ (ret[r] # nil <=> errorCount[r] > 0)
         /\ errorCount[r] > 0
            => ret[r] = << [msg |-> "sync completed with errors out of items",
                            n |-> errorCount[r], m |-> Len(posts[r])] >>
         /\ \A i \in 1..Len(upserts[r]) :
              upserts[r][i].ok
              => \E row \in store :
                   LET last == upserts[r][LastStored(upserts[r], upserts[r][i].item.ExternalID)].item
                   IN /\ row.external_id = upserts[r][i].item.ExternalID
                      /\ row.title = last.Title
                      /\ row.body = last.Body
                      /\ row.user_id = last.UserID

\* Two records fetched, one upsert failed: a non-nil error, and the other record is
\* stored.
C10_Witness ==
    /\ pc["cron"] = "done"
    /\ Len(posts["cron"]) = 2
    /\ successCount["cron"] = 1
    /\ errorCount["cron"] = 1
    /\ ret["cron"] = Err("sync completed with errors out of items", 1, 2)
    /\ \E row \in store : row.external_id = "2" /\ row.title = "A"

\* --------------------------------------------------------------------- C11
\* C11: a run that has returned without a record processed successfully (its fetch
\* failed, or succeeded with an empty list, or every upsert failed) has returned a
\* non-nil error.
C11_ZeroSuccessIsError ==
    \A r \in RunIds :
      (pc[r] = "done" /\ successCount[r] = 0) => ret[r] # nil

\* --------------------------------------------------------------------- C12
\* C12: a run returns a non-nil error only when its fetch failed or no upsert
\* succeeded, and a /sync request whose run had at least one successful and at least
\* one failed upsert has been answered 200.
C12_OnlyTotalFailureSurfaced ==
    /\ \A r \in RunIds :
         (pc[r] = "done" /\ ret[r] # nil) => (~FetchSucceeded(r) \/ successCount[r] = 0)
    /\ ( /\ reqCtx = "none"
         /\ pc["manual"] = "done"
         /\ successCount["manual"] > 0
         /\ errorCount["manual"] > 0 )
       => syncResponse.status = 200

\* --------------------------------------------------------------------- C13
\* C13: at most one run is in syncData at any time, whichever of the initial sync,
\* the cron entry and POST /sync started it.
C13_AtMostOneInFlight == Cardinality({r \in RunIds : InFlight(r)}) <= 1

SchedulerStopped ==
    /\ mctx["main"] = "canceled"
    /\ ~cronRunning["main"]
    /\ ~due

\* From a stopped scheduler a step leaves it stopped and starts no run of the cron
\* entry, and a step of a Stop called again changes nothing but the place of the
\* caller.
C15_StoppedStep ==
    (SchedulerStopped /\ mainPc \in {"stopping", "stopped"})
    => /\ SchedulerStopped'
       /\ mainPc' \in {"stopping", "stopped"}
       /\ (pc["cron"] \in {"idle", "done"} => pc'["cron"] = pc["cron"])
       /\ (StopAgain \/ StopCron)
          => UNCHANGED <<baseURLValid, mctx, now, store, cache, runsStarted, pc, ctx,
                         ret, fetchVars, syncVars, lastWrite, startedAt, startCtx,
                         readVars, lastFetched,
                         source, cronRunning, reqCtx, syncResponse, wall, due>>

\* C15: once Stop has returned the scheduler is stopped; Stop can be called again
\* and returns; the second call leaves every part of the state as the first left
\* it; and after the first Stop no run of the cron entry starts.
C15_StopIdempotent ==
    /\ [](mainPc = "stopped" => (SchedulerStopped /\ ENABLED StopAgain))
    /\ [](mainPc = "stopping" => ENABLED StopCron)
    /\ [][C15_StoppedStep]_vars

\* Stop is called a second time, after the first has returned and a quarter of an
\* hour has begun: no run of the cron entry was started.
C15_Witness ==
    /\ mainPc = "stopping"
    /\ ~cronRunning["main"]
    /\ wall >= 15
    /\ pc["cron"] = "idle"

\* --------------------------------------------------------------------- C16
\* C16: until Start the scheduler does not run and no run exists; Start leaves the
\* cron scheduler running and the initial sync launched, without a run having been
\* waited for; a run of the cron entry starts only in a minute that is a multiple
\* of 15, and in each such minute reached while the scheduler runs one is started;
\* the context of a run is done by its deadline 2 minutes after the run derived
\* it, not before, and is done once the Manager's context is canceled.
C16_StartSchedules ==
    /\ mainPc = "new"
       => /\ ~cronRunning["main"]
          /\ pc["startup"] = "idle"
          /\ pc["cron"] = "idle"
    /\ mainPc = "started"
       => /\ cronRunning["main"]
          /\ pc["startup"] # "idle"
          /\ (runsStarted = 0 => pc["startup"] = "spawned")
    /\ pc["cron"] # "idle"
       => /\ startedAt["cron"] % 15 = 0
          /\ startedAt["cron"] >= 15
    /\ (cronRunning["main"] /\ wall % 15 = 0 /\ wall >= 15 /\ ~due)
       => /\ pc["cron"] # "idle"
          /\ startedAt["cron"] = wall
    /\ \A r \in {"startup", "cron"} :
         /\ ctx[r] = "deadline" => wall >= startedAt[r] + 2
         /\ (InFlight(r) /\ ctx[r] = "live")
            => /\ wall <= startedAt[r] + 2
               /\ mctx["main"] = "live"

\* Start was called in minute 14 and the initial sync is still in flight in minute
\* 16, its deadline passed, while the run the cron entry started in minute 15 is in
\* flight under a live context.
C16_Witness ==
    /\ mainPc = "started"
    /\ wall = 16
    /\ InFlight("startup")
    /\ startedAt["startup"] = 14
    /\ ctx["startup"] = "deadline"
    /\ InFlight("cron")
    /\ startedAt["cron"] = 15
    /\ ctx["cron"] = "live"

\* --------------------------------------------------------------------- C17
\* C17: a run started by POST /sync runs under the handler's context: while the run
\* is in flight its context is done once the request's context is done, and its
\* deadline is the request's 3-minute deadline.
C17_ManualUnderCallerContext ==
    /\ (InFlight("manual") /\ CtxDone(reqCtx)) => CtxDone(ctx["manual"])
    /\ ctx["manual"] = "deadline" => reqCtx = "deadline"

\* --------------------------------------------------------------------- C18
\* The run r applied an upsert in this step, and the item it applied.
Applied(r) ==
    /\ Len(upserts'[r]) = Len(upserts[r]) + 1
    /\ upserts'[r][Len(upserts'[r])].ok

AppliedItem(r) == upserts'[r][Len(upserts'[r])].item

RowsOf(rows, eid) == {row \in rows : row.external_id = eid}

HoldsItem(row, item) ==
    /\ row.external_id = item.ExternalID
    /\ row.title = item.Title
    /\ row.body = item.Body
    /\ row.user_id = item.UserID

\* C18 as claimed: an applied upsert leaves exactly one row for its external id,
\* holding its payload; when a row for that id was there, created_at is unchanged
\* and updated_at is later than it was.
C18_UpsertTwiceAdvances ==
    [][\A r \in RunIds :
         Applied(r)
         => LET item == AppliedItem(r)
                old == RowsOf(store, item.ExternalID)
                new == RowsOf(store', item.ExternalID)
            IN /\ Cardinality(new) = 1
               /\ \A n \in new : HoldsItem(n, item)
               /\ \A o \in old : \A n \in new :
                    /\ n.created_at = o.created_at
                    /\ n.updated_at > o.updated_at]_vars

\* C18, amended: an applied upsert leaves exactly one row for its external id,
\* holding its payload, with updated_at the store's clock at the upsert; a first
\* upsert sets created_at to the same time; when a row for that id was there, the
\* row keeps its id and created_at, and updated_at is not earlier than it was.
C18_UpsertTwiceRefreshes ==
    [][\A r \in RunIds :
         Applied(r)
         => LET item == AppliedItem(r)
                old == RowsOf(store, item.ExternalID)
                new == RowsOf(store', item.ExternalID)
            IN /\ Cardinality(new) = 1
               /\ \A n \in new :
                    /\ HoldsItem(n, item)
                    /\ n.updated_at = now
                    /\ (old = {} => n.created_at = now)
               /\ \A o \in old : \A n \in new :
                    /\ n.id = o.id
                    /\ n.created_at = o.created_at
                    /\ n.updated_at >= o.updated_at
               /\ RowsOf(store', item.ExternalID) \cup store
                    = store' \cup RowsOf(store, item.ExternalID)]_vars

\* The initial sync stored id 1 with title "A" at time 0 and the cron entry's run
\* stored it again with title "B" at time 1: one row, created at 0, updated at 1.
C18_Witness ==
    /\ Len(upserts["startup"]) >= 1
    /\ upserts["startup"][1].ok
    /\ upserts["startup"][1].item.Title = "A"
    /\ Len(upserts["cron"]) >= 1
    /\ upserts["cron"][1].ok
    /\ upserts["cron"][1].item.Title = "B"
    /\ \E row \in store :
         /\ row.external_id = "1"
         /\ row.title = "B"
         /\ row.created_at = 0
         /\ row.updated_at = 1

\* --------------------------------------------------------------------- C19
\* C19: whatever the interleaving of the runs' upserts, the store holds at most one
\* row for an external id, and exactly one for each id an upsert was applied for;
\* the row holds the payload of the upsert applied last for its id; and no step
\* makes the updated_at of a row earlier.
C19_OneRowPerExternalID ==
    /\ [](\A e \in ExternalIDs :
            /\ Cardinality(RowsOf(store, e)) <= 1
            /\ (lastWrite[e] # NoItem <=> RowsOf(store, e) # {})
            /\ \A row \in RowsOf(store, e) : HoldsItem(row, lastWrite[e]))
    /\ [](\A row \in store : row.external_id \in ExternalIDs)
    /\ [][\A o \in store : \A n \in store' :
            n.external_id = o.external_id => n.updated_at >= o.updated_at]_vars

\* The initial sync and the cron entry's run are both in syncData and both have
\* applied an upsert for id 1, with different titles.
C19_Witness ==
    /\ InFlight("startup")
    /\ InFlight("cron")
    /\ Len(upserts["startup"]) >= 1
    /\ upserts["startup"][1].ok
    /\ Len(upserts["cron"]) >= 1
    /\ upserts["cron"][1].ok
    /\ upserts["startup"][1].item.ExternalID = "1"
    /\ upserts["cron"][1].item.ExternalID = "1"
    /\ upserts["startup"][1].item.Title # upserts["cron"][1].item.Title
    /\ Cardinality(RowsOf(store, "1")) = 1

\* --------------------------------------------------------------------- C20
\* C20: no step removes an external id from the store, so the set of stored
\* external ids only grows, also when a run fetches a list without an id stored
\* before.
C20_NeverDeletes ==
    [][{row.external_id : row \in store} \subseteq {row.external_id : row \in store'}]_vars

\* Id 2 was stored by the initial sync, and the cron entry's run, whose fetch gave
\* only id 1, has ended: id 2 is still stored.
C20_Witness ==
    /\ pc["cron"] = "done"
    /\ okDoc["cron"] = DocOne
    /\ successCount["cron"] = 1
    /\ \E row \in store : row.external_id = "2"
    /\ \E row \in store : row.external_id = "1"

\* --------------------------------------------------------------------- C21
\* The list v holds every row of rows once, the later created_at first.
ListsRows(v, rows) ==
    /\ v.isNil = (rows = {})
    /\ Len(v.elems) = Cardinality(rows)
    /\ {v.elems[i] : i \in 1..Len(v.elems)} = {ScanItem(row) : row \in rows}
    /\ \A i, j \in 1..Len(v.elems) :
         i < j => v.elems[i].CreatedAt >= v.elems[j].CreatedAt

\* Where the record of external id e is in the list v.
PosOf(v, e) == CHOOSE i \in 1..Len(v.elems) : v.elems[i].ExternalID = e

\* The external ids of the rows.
IdsOf(rows) == {row.external_id : row \in rows}

\* The records a and b are in the same order in the lists v and w.
SameOrder(v, w, a, b) == (PosOf(v, a) < PosOf(v, b)) <=> (PosOf(w, a) < PosOf(w, b))

\* The run r upserted a record whose external id the store held.
Resynced(r) == Applied(r) /\ RowsOf(store, AppliedItem(r).ExternalID) # {}

\* C21 as claimed: what GetAllItems returns holds every row once, the later
\* created_at first; and when a stored record is upserted again, every two records
\* are in the same order in a list read before and in a list read after.
C21_ListAllKeepsPositions ==
    [][/\ (getPc = "query" /\ getPc' = "set") => ListsRows(items', store)
       /\ \A r \in RunIds :
            Resynced(r)
            => \A v \in GetAllItems(store) : \A w \in GetAllItems(store') :
                 \A a, b \in IdsOf(store) : SameOrder(v, w, a, b)]_vars

\* C21, amended: what GetAllItems returns holds every row once, the later
\* created_at first; and when a stored record is upserted again, every two records
\* with different created_at are in the same order in a list read before and in a
\* list read after.
C21_ListAllKeepsSortedPositions ==
    [][/\ (getPc = "query" /\ getPc' = "set") => ListsRows(items', store)
       /\ \A r \in RunIds :
            Resynced(r)
            => \A v \in GetAllItems(store) : \A w \in GetAllItems(store') :
                 \A a, b \in IdsOf(store) :
                   (\E ra \in RowsOf(store, a) : \E rb \in RowsOf(store, b) :
                      ra.created_at # rb.created_at)
                   => SameOrder(v, w, a, b)]_vars

\* Id 1 was stored at time 0, id 2 at time 1, and id 1 again with title "B" at time
\* 1; the handler has read the store since: id 2 first, id 1 second.
C21_Witness ==
    /\ getPc = "set"
    /\ Len(items.elems) = 2
    /\ items.elems[1].ExternalID = "2"
    /\ items.elems[1].CreatedAt = 1
    /\ items.elems[2].ExternalID = "1"
    /\ items.elems[2].Title = "B"
    /\ items.elems[2].CreatedAt = 0
    /\ items.elems[2].UpdatedAt = 1

\* --------------------------------------------------------------------- C22
\* The handler stored its items under items:all in this step.
SetApplied == getPc = "set" /\ getPc' = "idle" /\ cache' # cache

\* The handler answered from the cache in this step.
HitAnswered ==
    /\ Len(itemsResponses') = Len(itemsResponses) + 1
    /\ itemsResponses'[Len(itemsResponses')].xcache = "HIT"

\* What a GetJSON of items:all into nil items gives from the cache c that answers.
Cached(c) == GetJSON(c, itemsCacheKey, TRUE, NilItems)

InvalidateReturned(r) ==
    /\ pc[r] \in {"invalidate", "del"}
    /\ pc'[r] = "done"
    /\ ~invalErr'[r]

\* C23: when InvalidatePattern("items:*") returns nil and no key matching the
\* pattern was set after its KEYS, every key that matches the pattern is a miss and
\* every key that does not match is as it was, value and expiry; when KEYS found
\* no key the cache is as it was; and KEYS itself changes no key.
C23_InvalidateClearsPattern ==
    [][\A r \in RunIds :
         /\ (InvalidateReturned(r) /\ Keys(cache, itemsPattern) \subseteq keysFound'[r])
            => /\ \A k \in CacheKeys :
                    IF GlobMatch(itemsPattern, k)
                    THEN GetJSON(cache', k, TRUE, NilItems).err = RedisNil
                    ELSE cache'[k] = cache[k]
               /\ keysFound'[r] = {} => cache' = cache
         /\ (pc[r] = "invalidate" /\ pc'[r] # "invalidate") => cache' = cache]_vars

\* The initial sync found items:all and the derived key set, deleted both, and
\* returned: neither is set, and the key of another prefix is.
C23_Witness ==
    /\ pc["startup"] = "done"
    /\ ~invalErr["startup"]
    /\ keysFound["startup"] = {itemsCacheKey, derivedKey}
    /\ ~cache[itemsCacheKey].present
    /\ ~cache[derivedKey].present
    /\ cache[foreignKey] = Entry(JGarbage, 0)

\* --------------------------------------------------------------------- C24
\* C24: when the handler stores items under items:all, what it stores is what
\* GetAllItems gives from the store as it is at that step.
C24_CachedIsStoreAtWrite ==
    [][SetApplied => Cached(cache').value \in GetAllItems(store)]_vars

\* --------------------------------------------------------------------- C25
\* The handler answered in this step, and its answer.
Answered == Len(itemsResponses') = Len(itemsResponses) + 1

Answer == itemsResponses'[Len(itemsResponses')]

\* C25: an answer from the cache is given by the step that reads the cache, which
\* reads no row and writes no key, and is 200 with X-Cache HIT, cached = true and
\* the cached records; an answer 200 that is not from the cache is given after the
\* store was read and is X-Cache MISS, cached = false with the records read, and
\* the step that gives it writes nothing or writes the records' JSON under
\* items:all with an expiry 5 minutes ahead, all other keys left as they were.
C25_TwoStepReadThrough ==
    [][/\ (Answered /\ Answer.xcache = "HIT")
          => /\ getPc = "idle"
             /\ getPc' = "idle"
             /\ Cached(cache).err = nil
             /\ Answer = [status |-> 200, xcache |-> "HIT",
                          data |-> Cached(cache).value,
                          count |-> Len(Cached(cache).value.elems),
                          cached |-> TRUE, error |-> "",
                          message |-> nil]
             /\ cache' = cache
             /\ store' = store
       /\ (getPc = "idle" /\ getPc' = "query") => UNCHANGED <<cache, store>>
       /\ (getPc = "query" /\ getPc' = "set")
          => /\ items' \in GetAllItems(store)
             /\ UNCHANGED <<cache, store>>
       /\ (Answered /\ Answer.status = 200 /\ Answer.xcache # "HIT")
          => /\ getPc = "set"
             /\ Answer = [status |-> 200, xcache |-> "MISS", data |-> items,
                          count |-> Len(items.elems), cached |-> FALSE, error |-> "",
                          message |-> nil]
             /\ \/ cache' = cache
                \/ cache' = [cache EXCEPT
                               ![itemsCacheKey] = Entry(MarshalItems(items), wall + 5)]
             /\ store' = store]_vars

\* The handler answered a first request from the store, with the one record stored,
\* and cached it, and answered the second from the cache; the entry is still set.
C25_Witness ==
    /\ Len(itemsResponses) = 2
    /\ itemsResponses[1].xcache = "MISS"
    /\ itemsResponses[1].count = 1
    /\ ~itemsResponses[1].cached
    /\ itemsResponses[2].xcache = "HIT"
    /\ itemsResponses[2].cached
    /\ itemsResponses[2].count = 1
    /\ cache[itemsCacheKey].present
    /\ cache[itemsCacheKey].val = MarshalItems(itemsResponses[2].data)

\* --------------------------------------------------------------------- C26
\* C26: the step that reads the cache answers 200 from the cache or, when GetJSON
\* returned an error, goes on to the store without an answer, which is what it does
\* when items:all is not set or does not decode; the
\* step that writes the cache answers 200 with the records read from the store,
\* whether the write was applied or not; and an answer 500 is given only by the
\* step that reads the store.
C26_CacheFailuresNeverFailRead ==
    [][/\ (getPc = "idle" /\ Answered) => Answer.status = 200
       /\ (getPc = "idle" /\ getErr' # nil) => (getPc' = "query" /\ ~Answered)
       /\ (getPc = "idle" /\ getPc' = "idle" /\ Cached(cache).err # nil) => ~Answered
       /\ (getPc = "set" /\ getPc' # "set")
          => /\ Answered
             /\ Answer.status = 200
             /\ Answer.data = items
       /\ (Answered /\ Answer.status # 200) => getPc = "query"]_vars

\* items:all held bytes that are not JSON when the handler read it and holds them
\* still, the write of the cache having failed: the request was answered 200 with
\* the one record of the store.
C26_Witness ==
    /\ cache[itemsCacheKey] = Entry(JGarbage, 0)
    /\ Len(itemsResponses) = 1
    /\ itemsResponses[1].status = 200
    /\ itemsResponses[1].xcache = "MISS"
    /\ itemsResponses[1].count = 1
    /\ \E row \in store : itemsResponses[1].data = ItemSlice(<<ScanItem(row)>>)

\* --------------------------------------------------------------------- C27
\* The initial sync has returned, having upserted a record and invalidated.
SyncedAndInvalidated ==
    /\ pc["startup"] = "done"
    /\ successCount["startup"] >= 1
    /\ invalCalls["startup"] = 1
    /\ ~invalErr["startup"]

\* The answer is 200 from the store with what GetAllItems gives, the records the run
\* upserted among them.
IsMissOfStore(answer) ==
    /\ answer.status = 200
    /\ answer.xcache = "MISS"
    /\ answer.data \in GetAllItems(store)
    /\ \A i \in 1..Len(upserts["startup"]) :
         upserts["startup"][i].ok
         => \E j \in 1..Len(answer.data.elems) :
              answer.data.elems[j].ExternalID = upserts["startup"][i].item.ExternalID

FirstReadFromStore == Len(itemsResponses) >= 1 /\ itemsResponses[1].status = 200

\* The first request's records are cached under items:all.
FirstReadCached ==
    /\ Len(itemsResponses) = 1
    /\ cache[itemsCacheKey].present
    /\ cache[itemsCacheKey].val = MarshalItems(itemsResponses[1].data)

ItemsOfDoc(doc) == [i \in 1..Len(RecordsOf(doc)) |-> ItemOf(RecordsOf(doc)[i])]

\* What one run that upserts the items in order leaves of them: for each external
\* id the item that comes last.
AfterSingleRun(its) ==
    {its[i] : i \in {j \in 1..Len(its) :
                       \A l \in (j + 1)..Len(its) : its[l].ExternalID # its[j].ExternalID}}

\* The payloads stored for the external ids of the items.
StoredFor(its) ==
    {[ExternalID |-> row.external_id, Title |-> row.title, Body |-> row.body,
      UserID |-> row.user_id] :
       row \in {x \in store : \E i \in 1..Len(its) : its[i].ExternalID = x.external_id}}

\* The run has returned after fetching the list doc and applying every upsert.
RanOver(r, doc) == pc[r] = "done" /\ okDoc[r] = doc /\ errorCount[r] = 0

\* C28: when the cron entry's run and the manual run have both fetched the same
\* list and applied all their upserts, in whatever interleaving, and the initial
\* sync is over and fetched nothing else, the store holds for the ids of the list
\* what one run leaves; and in every state the row of an external id holds the
\* payload of the upsert applied last for it, which an applied upsert makes its own.
C28_OverlapLastWriteWins ==
    /\ [](\A doc \in Bodies :
            (/\ RanOver("cron", doc)
             /\ RanOver("manual", doc)
             /\ ~InFlight("startup")
             /\ okDoc["startup"] \in {NoDoc, doc})
            => StoredFor(ItemsOfDoc(doc)) = AfterSingleRun(ItemsOfDoc(doc)))
    /\ [](\A e \in ExternalIDs : \A row \in RowsOf(store, e) : HoldsItem(row, lastWrite[e]))
    /\ [][\A r \in RunIds :
            Applied(r)
            => /\ lastWrite'[AppliedItem(r).ExternalID] = AppliedItem(r)
               /\ \E row \in store' : HoldsItem(row, AppliedItem(r))]_vars

\* The cron entry's run fetched id 1 with title "A", the manual run fetched it with
\* title "B" after that, and both have returned with their upserts applied: the
\* store holds title "A", which is not what was fetched last.
C28_Witness ==
    /\ RanOver("cron", DocOne)
    /\ RanOver("manual", DocTwo)
    /\ pc["startup"] = "spawned"
    /\ lastFetched = "manual"
    /\ lastWrite["1"].Title = "A"
    /\ \E row \in store : row.external_id = "1" /\ row.title = "A"

\* --------------------------------------------------------------------- C29
\* C29: the health check answers 200 healthy exactly when the store's ping and the
\* cache's ping both succeeded; when the store's ping failed it answers 503
\* unhealthy with "database connection failed" and has not pinged the cache; when
\* the store's ping succeeded and the cache's failed it answers 503 unhealthy with
\* "redis connection failed".
C29_HealthCheck ==
    /\ healthResponse = HealthyResponse <=> pinged = [db |-> "ok", redis |-> "ok"]
    /\ pinged.db = "failed"
       => /\ healthResponse = UnhealthyResponse("database connection failed")
          /\ pinged.redis = "none"
    /\ (pinged.db = "ok" /\ pinged.redis = "failed")
       => healthResponse = UnhealthyResponse("redis connection failed")
    /\ healthResponse # NoHealthResponse
       => /\ pinged.db # "none"
          /\ healthResponse.status \in {200, 503}
          /\ healthResponse.status = 503 <=> healthResponse.state = "unhealthy"

\* A health check found the store down and answered without pinging the cache.
C29_Witness ==
    /\ pinged = [db |-> "failed", redis |-> "none"]
    /\ healthResponse.status = 503
    /\ healthResponse.error = "database connection failed"

\* --------------------------------------------------------------------- C30
\* The /sync handler answers in this step.
SyncAnswered == reqCtx # "none" /\ reqCtx' = "none"

C31_CleanShutdown ==
    mainPc = "stopped"
    => \A r \in {"startup", "cron"} : pc[r] \notin {"upsert", "invalidate", "del"}

\* --------------------------------------------------------------------- C32
\* The member mem of a record of the response, where it is present, is the value v.
CopiedFrom(mem, v) == mem.k = "val" => v = mem.v

\* The item is the post's: the external id the decimal string of its id, the rest
\* copied.
MappedFrom(item, post) ==
    /\ item.ExternalID = Itoa(post.ID)
    /\ item.Title = post.Title
    /\ item.Body = post.Body
    /\ item.UserID = post.UserID

\* C32: the UpsertItem calls of a run are made one at a time in the order of the
\* fetched posts: a call is made when the calls for all earlier positions have
\* returned, failed or not, and it is the call for the next position; the item of the
\* call at position i is mapped from the post at position i, which is the record at
\* position i of the response.
C32_UpsertsInFetchOrder ==
    /\ [](\A r \in RunIds :
            FetchSucceeded(r)
            => /\ Len(posts[r]) = Len(okDoc[r].elems)
               /\ Len(upserts[r]) <= Len(posts[r])
               /\ pc[r] = "upsert" => idx[r] = Len(upserts[r]) + 1
               /\ \A i \in 1..Len(upserts[r]) :
                    /\ MappedFrom(upserts[r][i].item, posts[r][i])
                    /\ CopiedFrom(okDoc[r].elems[i].id, posts[r][i].ID)
                    /\ CopiedFrom(okDoc[r].elems[i].title, posts[r][i].Title)
                    /\ CopiedFrom(okDoc[r].elems[i].body, posts[r][i].Body)
                    /\ CopiedFrom(okDoc[r].elems[i].userId, posts[r][i].UserID))
    /\ [][\A r \in RunIds :
            (upserts'[r] # upserts[r] /\ upserts'[r] # << >>)
            => /\ pc[r] = "upsert"
               /\ Len(upserts[r]) = idx[r] - 1
               /\ SubSeq(upserts'[r], 1, Len(upserts[r])) = upserts[r]
               /\ Len(upserts'[r]) = idx[r]
               /\ MappedFrom(upserts'[r][idx[r]].item, posts[r][idx[r]])
               /\ idx'[r] = idx[r] + 1]_vars

\* A run over a list of three records has made its three calls in the list's order,
\* the first of them failed.
C32_Witness ==
    /\ okDoc["cron"] = DocResync
    /\ pc["cron"] = "done"
    /\ Len(upserts["cron"]) = 3
    /\ ~upserts["cron"][1].ok
    /\ upserts["cron"][1].item = [ExternalID |-> "1", Title |-> "A", Body |-> "b", UserID |-> 1]
    /\ upserts["cron"][2].item = [ExternalID |-> "2", Title |-> "A", Body |-> "", UserID |-> 2]
    /\ upserts["cron"][3].item = [ExternalID |-> "1", Title |-> "B", Body |-> "b", UserID |-> 1]

\* --------------------------------------------------------------------- C33
\* A step of a sync run: one that changes where a run is or what it holds.
SyncRunStep ==
    \/ pc' # pc
    \/ ret' # ret
    \/ fetchVars' # fetchVars
    \/ syncVars' # syncVars

\* C33: a step of a sync run sets no key and changes the value or expiry of none:
\* a key that is set after the step was set before it with the same entry, so the
\* set keys can only become fewer; and the keys that do not match "items:*" are as
\* they were.
C33_SyncNeverWritesCache ==
    [][SyncRunStep
       => /\ \A k \in CacheKeys : cache'[k].present => cache'[k] = cache[k]
          /\ \A k \in CacheKeys : ~GlobMatch(itemsPattern, k) => cache'[k] = cache[k]
          /\ Keys(cache', itemsPattern) \subseteq Keys(cache, itemsPattern)]_vars

\* A read has cached the items under items:all, and the initial sync, which found
\* that key alone, has deleted it and returned; the key of another prefix is set.
C33_Witness ==
    /\ pc["startup"] = "done"
    /\ ~invalErr["startup"]
    /\ keysFound["startup"] = {itemsCacheKey}
    /\ Len(itemsResponses) >= 1
    /\ itemsResponses[1].xcache = "MISS"
    /\ ~cache[itemsCacheKey].present
    /\ cache[foreignKey].present

\* --------------------------------------------------------------------- C34
\* The context of the run r becomes done in this step, by Stop or by its deadline.
Cancelled(r) == InFlight(r) /\ ctx[r] = "live" /\ CtxDone(ctx'[r])

\* C34: the step that cancels a run in flight leaves the store as it is, and while
\* the context of a run is done, during the run and after it has returned, each
\* record the run upserted successfully has its row, with the payload of the run's
\* last successful upsert for its external id.
C34_CancelKeepsUpserts ==
    /\ [][(\E r \in RunIds : Cancelled(r)) => store' = store]_vars
    /\ [](\A r \in RunIds :
            CtxDone(ctx[r])
            => \A i \in 1..Len(upserts[r]) :
                 upserts[r][i].ok
                 => \E row \in store :
                      HoldsItem(row, upserts[r][LastStored(upserts[r],
                                                upserts[r][i].item.ExternalID)].item))

\* The deadline of the cron entry's run passed between the KEYS and the DEL of its
\* invalidation, after its upsert of record 1: the run has returned, and the row of
\* record 1 holds the payload.
C34_Witness ==
    /\ pc["cron"] = "done"
    /\ ctx["cron"] = "deadline"
    /\ keysFound["cron"] # {}
    /\ invalErr["cron"]
    /\ okDoc["cron"] = DocOne
    /\ upserts["cron"] = << [item |-> [ExternalID |-> "1", Title |-> "A", Body |-> "b",
                                       UserID |-> 1], ok |-> TRUE] >>
    /\ \E row \in store : row.external_id = "1" /\ row.title = "A" /\ row.body = "b"

\* --------------------------------------------------------------------- C35
\* The read that missed the cache is answered without the items in this step.
StoreReadFailed == getPc = "query" /\ getPc' = "idle"

\* C35: a read that reaches the store has missed the cache; when GetAllItems fails
\* the read is answered 500 "failed to retrieve items" with the error GetAllItems
\* returned as the message, and the cache is as it was; and only such a read is
\* answered 500.
C35_StoreFailureIsServerError ==
    /\ [](getPc = "query" => getErr # nil)
    /\ [][StoreReadFailed
          => /\ Answered
             /\ Answer.status = 500
             /\ Answer.error = "failed to retrieve items"
             /\ Answer.message \in GetAllItemsErrors
             /\ cache' = cache]_vars
    /\ [][(Answered /\ Answer.status = 500) => StoreReadFailed]_vars

\* Nothing was cached under items:all, the store could not be read, and the read was
\* answered 500 with the store's error: nothing is cached.
C35_Witness ==
    /\ getPc = "idle"
    /\ Len(itemsResponses) = 1
    /\ itemsResponses[1].status = 500
    /\ itemsResponses[1].message = Err("invalid connection", 0, 0)
    /\ ~cache[itemsCacheKey].present
    /\ pc["startup"] = "spawned"

\* --------------------------------------------------------------------- C36
\* The listing v has the item with its payload.
Lists(v, item) ==
    \E j \in 1..Len(v.elems) :
      /\ v.elems[j].ExternalID = item.ExternalID
      /\ v.elems[j].Title = item.Title
      /\ v.elems[j].Body = item.Body
      /\ v.elems[j].UserID = item.UserID

\* The run has returned and its InvalidatePattern returned nil.
InvalidatedOk(r) == pc[r] = "done" /\ invalCalls[r] = 1 /\ ~invalErr[r]

\* C36: a read answered from the cache after the initial sync's invalidation has
\* returned nil has the records the run upserted: it is not a listing read from the
\* store before those upserts.
C36_NoStaleHitAfterInvalidation ==
    [][(InvalidatedOk("startup") /\ Answered /\ Answer.xcache = "HIT")
       => \A i \in 1..Len(upserts["startup"]) :
            upserts["startup"][i].ok => Lists(Answer.data, upserts["startup"][i].item)]_vars

\* --------------------------------------------------------------------- C37
\* The run r was started, the last time, on a Manager whose context was done.
StartedCancelled(r) == pc[r] \notin {"idle", "spawned"} /\ CtxDone(startCtx[r])

\* A run started with its context done has called neither UpsertItem nor
\* InvalidatePattern, and when it has returned it returned an error.
CancelledRunsAreInert ==
    \A r \in RunIds :
      StartedCancelled(r)
      => /\ CtxDone(ctx[r])
         /\ upserts[r] = << >>
         /\ invalCalls[r] = 0
         /\ keysFound[r] = {}
         /\ pc[r] = "done" => ret[r] # nil

C38_UpsertsIgnoreContext ==
    /\ [][\A r \in RunIds :
            /\ (pc[r] = "upsert" /\ pc'[r] # "upsert")
               => /\ Len(upserts'[r]) = Len(posts[r])
                  /\ pc'[r] \in {"invalidate", "done"}
            /\ (pc[r] = "upsert" /\ Cancelled(r))
               => /\ pc'[r] = "upsert"
                  /\ idx'[r] = idx[r]
                  /\ upserts'[r] = upserts[r]
                  /\ posts'[r] = posts[r]
            /\ (pc[r] = "upsert" /\ CtxDone(ctx[r]) /\ pc'[r] = "upsert")
               => \/ Len(upserts'[r]) = Len(upserts[r]) + 1
                  \/ UNCHANGED <<upserts, idx>>]_vars
    /\ [](\A r \in RunIds :
            (FetchSucceeded(r) /\ pc[r] = "done" /\ CtxDone(ctx[r]))
            => /\ Len(upserts[r]) = Len(posts[r])
               /\ successCount[r] + errorCount[r] = Len(posts[r])
               /\ invalCalls[r] = 1 => invalErr[r]
               /\ invalCalls[r] = 1 <=> successCount[r] > 0)

\* The deadline of the cron entry's run passed after its fetch of two records and
\* before its invalidation: both upserts were attempted and applied, the
\* invalidation failed, and the run returned nil.
C38_Witness ==
    /\ pc["cron"] = "done"
    /\ ctx["cron"] = "deadline"
    /\ okDoc["cron"] = DocTwo
    /\ Len(upserts["cron"]) = 2
    /\ successCount["cron"] = 2
    /\ invalCalls["cron"] = 1
    /\ invalErr["cron"]
    /\ keysFound["cron"] = {}
    /\ ret["cron"] = nil

\* --------------------------------------------------------------------- C39
\* The positions of the log whose item has the external id eid.
Occurrences(log, eid) == {i \in 1..Len(log) : log[i].item.ExternalID = eid}

\* C39: in a run that has returned after applying every upsert of its fetch, each
\* post was upserted at its position and counted as a success, also when several
\* posts have one id; for each id of the fetch the store has exactly one row, with
\* the payload of the id's last occurrence; so successCount is the number of posts,
\* which is not below the number of rows of those ids.
C39_DuplicateIdsCountedEach ==
    \A r \in RunIds :
      (pc[r] = "done" /\ FetchSucceeded(r) /\ errorCount[r] = 0)
      => /\ successCount[r] = Len(posts[r])
         /\ Len(upserts[r]) = Len(posts[r])
         /\ \A i \in 1..Len(posts[r]) :
              LET eid == Itoa(posts[r][i].ID)
                  occ == Occurrences(upserts[r], eid)
                  last == CHOOSE j \in occ : \A l \in occ : l <= j
              IN /\ i \in occ
                 /\ upserts[r][i].ok
                 /\ Cardinality(RowsOf(store, eid)) = 1
                 /\ \A row \in RowsOf(store, eid) : HoldsItem(row, ItemOf(posts[r][last]))
         /\ successCount[r]
              >= Cardinality({row \in store :
                                Occurrences(upserts[r], row.external_id) # {}})

\* A fetch of two records with id 1: both upserts succeeded and were counted, and
\* the store has one row, with the payload of the second.
C39_Witness ==
    /\ pc["cron"] = "done"
    /\ okDoc["cron"] = DocDup
    /\ successCount["cron"] = 2
    /\ errorCount["cron"] = 0
    /\ Cardinality(store) = 1
    /\ \E row \in store :
         /\ row.external_id = "1"
         /\ row.title = "B"
         /\ row.body = ""
         /\ row.user_id = 2

\* --------------------------------------------------------------------- C40
\* A response with a 1xx or 3xx status.
IsUnexpectedStatus(resp) ==
    /\ resp.kind = "status"
    /\ resp.code < 200 \/ (resp.code >= 300 /\ resp.code < 400)

\* C40: when the last attempt of a run received a 1xx or 3xx status, the attempt
\* failed with "unexpected status code" and the status, the fetch has not
\* succeeded, and the failure is retried as the others are: with fewer than 4
\* attempts made the Fetcher is in the backoff before the next attempt or at the
\* next request, unless the backoff select returned the context's error; with 4
\* attempts made the call has ended with "max retries exceeded" wrapping that
\* failure.
C40_UnexpectedStatusRetried ==
    \A r \in RunIds :
      IsUnexpectedStatus(lastResp[r])
      => /\ lastFailure[r] = Err("unexpected status code", lastResp[r].code, 0)
         /\ ~FetchSucceeded(r)
         /\ posts[r] = << >>
         /\ upserts[r] = << >>
         /\ attempts[r] \in 1..4
         /\ attempts[r] < 4
            => \/ /\ pc[r] \in {"backoff", "request"}
                  /\ attempt[r] = attempts[r]
                  /\ lastErr[r] = lastFailure[r]
                  /\ Len(waits[r]) = attempts[r]
                  /\ waits[r][attempts[r]] = 2 ^ (attempts[r] - 1)
               \/ pc[r] = "done" /\ CtxDone(ctx[r]) /\ ReturnedCtxErr(r)
         /\ attempts[r] = 4
            => /\ pc[r] = "done"
               /\ ret[r] = FetchFailed(MaxRetriesExceeded(lastFailure[r]))

\* A 304 on the first attempt: a second after it the second request is about to be
\* sent.
C40_Witness ==
    /\ pc["cron"] = "request"
    /\ attempts["cron"] = 1
    /\ attempt["cron"] = 1
    /\ lastResp["cron"].code = 304
    /\ waits["cron"] = <<1>>
    /\ lastErr["cron"] = Err("unexpected status code", 304, 0)

====
